---- MODULE Spec2Model ----
(***************************************************************************)
(* Puzzle generation, reachability oracles and step handlers of the        *)
(* ARC-AGI-3 environments ga85 (Grid Alchemist), pm07 (Pattern Master),    *)
(* cd01 (Connect All Paths) and bx02 (Boxxle).                             *)
(*                                                                         *)
(* Each environment is a separate program; each gets its own               *)
(* specification over the shared variable list, and the variables of the   *)
(* other environments stay at their initial value:                         *)
(*   SpecGen     ga85 on_set_level -> _generate_solvable_grid              *)
(*   SpecClicks  ga85 one generation attempt click by click, then play     *)
(*   SpecL2      pm07 level 2 (flood walker)                               *)
(*   SpecUndo    pm07 levels 1 to 4, 6 and 7 with Undo                     *)
(*   SpecPmGems  pm07 levels 3 and 4 (ice slide, gem collector)            *)
(*   SpecL5      pm07 level 5 (teleport maze)                              *)
(*   SpecL6      pm07 level 6 (mirror walk)                                *)
(*   SpecL7      pm07 level 7 (sokoban)                                    *)
(*   SpecL7Open  pm07 level 7 on the boards without walls, longer plays    *)
(*   SpecCd      cd01 step handlers                                        *)
(*   SpecCdBridge  cd01 step handlers on a level with a bridge             *)
(*   SpecCdReset   cd01 step handlers and handle_reset                     *)
(*   SpecBx      bx02 step handler                                         *)
(*   SpecMoves   any one of cd01, pm07 levels 4, 5 and 7, and bx02         *)
(* The random number generator is modelled as nondeterministic choice      *)
(* over the values the drawing call can return.                            *)
(***************************************************************************)
EXTENDS Integers, Sequences, FiniteSets, TLC

VARIABLES
    \* ---- ga85 ----
    ga_pc,          \* position in on_set_level/_generate_solvable_grid
    ga_level,       \* self.level_index
    ga_attempt,     \* _attempt: number of completed loop iterations
    ga_scramble,    \* scramble_clicks (filtered) of the accepted attempt
    ga_grid,        \* grid of the latest attempt / returned grid
    ga_solution,    \* returned solution
    ga_via,         \* the continue or return statement taken last
    \* ---- pm07 ----
    pm_pc,          \* "set_level" before on_set_level, "play", "next_level"
                    \* after self.next_level(), "assert" after AssertionError
    pm_level,       \* _get_level_index()
    pm_attempt,     \* _gen_attempt of _setup_level_5
    pm_grid,        \* self._grid, pm_grid[y][x]
    pm_cursor_x,    \* self._cursor_x
    pm_cursor_y,    \* self._cursor_y
    pm_extra,       \* self._extra
    pm_prev_color,  \* self._prev_color
    pm_history,     \* self._history
    \* ---- cd01 ----
    cd_pc,              \* "play", "next_level" after next_level(), "lost" after lose()
    cd_level,           \* self.level_index
    cd_grid,            \* self.grid, cd_grid[y][x]
    cd_cursor_x,        \* self.cursor_x
    cd_cursor_y,        \* self.cursor_y
    cd_selected_color,  \* self.selected_color
    cd_drawn_paths,     \* self.drawn_paths
    cd_step_count,      \* self.step_count
    cd_action,          \* self.action.id of the latest step, "none" before the first
    \* ---- bx02 ----
    bx_pc,              \* "play", "next_level" after next_level(), "lost" after lose()
    bx_level,           \* self._current_level_index
    bx_player,          \* (self._player.x, self._player.y)
    bx_boxes,           \* the positions of self._boxes, in list order
    bx_coins,           \* the positions of self._coins
    bx_removed_coins,   \* the positions of self._removed_coins (_collected_coins
                        \* holds the ids of the same sprites)
    bx_lives,           \* self._lives
    bx_remaining,       \* self._step_display.remaining
    bx_flash_active,    \* self._flash_active
    \* ---- ga85, one generation attempt click by click, then play ----
    gc_pc,              \* "scramble" in the filter loop, "continue" after an
                        \* attempt is discarded, "play" after the return,
                        \* "next_level" after next_level()
    gc_pw,              \* pw
    gc_ph,              \* ph
    gc_nc,              \* nc
    gc_heap,            \* the row lists allocated so far; a grid is the
                        \* sequence of the indices of its rows
    gc_start,           \* the grid the attempt starts from
    gc_grid,            \* grid, later self._grid
    gc_todo,            \* the part of scramble_clicks still to be looped over
    gc_prev,            \* prev
    gc_filtered,        \* filtered
    gc_solution,        \* solution
    gc_via,             \* the continue or return statement taken
    gc_history,         \* self._history
    gc_click            \* (gx, gy) of the latest _activate_cell

ga_vars == <<ga_pc, ga_level, ga_attempt, ga_scramble, ga_grid, ga_solution, ga_via>>

pm_vars == <<pm_pc, pm_level, pm_attempt, pm_grid, pm_cursor_x, pm_cursor_y,
             pm_extra, pm_prev_color, pm_history>>

cd_vars == <<cd_pc, cd_level, cd_grid, cd_cursor_x, cd_cursor_y, cd_selected_color,
             cd_drawn_paths, cd_step_count, cd_action>>

bx_vars == <<bx_pc, bx_level, bx_player, bx_boxes, bx_coins, bx_removed_coins, bx_lives,
             bx_remaining, bx_flash_active>>

gc_vars == <<gc_pc, gc_pw, gc_ph, gc_nc, gc_heap, gc_start, gc_grid, gc_todo, gc_prev,
             gc_filtered, gc_solution, gc_via, gc_history, gc_click>>

vars == <<ga_vars, pm_vars, cd_vars, bx_vars, gc_vars>>

(***************************************************************************)
(* Generic helpers                                                         *)
(***************************************************************************)
Min(a, b) == IF a < b THEN a ELSE b
Max(a, b) == IF a > b THEN a ELSE b

RECURSIVE Reverse(_)
Reverse(s) == IF s = <<>> THEN <<>> ELSE Append(Reverse(Tail(s)), Head(s))

(***************************************************************************)
(* ga85 : constants                                                        *)
(***************************************************************************)
COLOR_CYCLE == <<8, 2, 3, 4, 7, 6>>

LEVEL_TARGET_COLORS == <<2, 2, 2, 2, 2, 2>>

LEVEL_DEFS ==
    << [pw |-> 3, ph |-> 3, num_colors |-> 2],
       [pw |-> 4, ph |-> 4, num_colors |-> 2],
       [pw |-> 5, ph |-> 5, num_colors |-> 3],
       [pw |-> 6, ph |-> 6, num_colors |-> 3],
       [pw |-> 7, ph |-> 7, num_colors |-> 4],
       [pw |-> 8, ph |-> 8, num_colors |-> 5] >>

\* Level indices (0-based, as self.level_index) whose generation is explored:
\* the levels that scramble with _strategy_random and the first level with
\* three colours and the strategies of _ADVANCED_STRATEGIES.
GaLevels == {0, 1, 2}

\* Grids are explored up to GaMaxDim x GaMaxDim: a level's pw and ph are
\* cut to it.
GaMaxDim == 2

\* Loop bound of _generate_solvable_grid (range(500) in the source).
MaxAttempts == 3

\* max_depth handed to _solve_bfs by _generate_solvable_grid.
BfsMaxDepth == 8

(***************************************************************************)
(* ga85 : grid helpers.  A grid is grid[r][c], r in 0..ph-1, c in 0..pw-1. *)
(***************************************************************************)
ColorsPool(nc) == SubSeq(COLOR_CYCLE, 1, nc)

\* colors_pool.index(cur), 0-based; ValueError -> 0
PoolIndex(pool, cur) ==
    IF \E i \in 1..Len(pool) : pool[i] = cur
    THEN (CHOOSE i \in 1..Len(pool) :
             pool[i] = cur /\ \A j \in 1..(i - 1) : pool[j] # cur) - 1
    ELSE 0

\* colors_pool[(ci + 1) % nc]
NextColor(pool, cur) == pool[((PoolIndex(pool, cur) + 1) % Len(pool)) + 1]

\* (tx, ty) is one of the five cells of a click at row cr, column cc:
\* (cc, cr), (cc - 1, cr), (cc + 1, cr), (cc, cr - 1), (cc, cr + 1).
IsClickTarget(tx, ty, cr, cc) ==
    \/ ty = cr /\ (tx = cc \/ tx = cc - 1 \/ tx = cc + 1)
    \/ tx = cc /\ (ty = cr - 1 \/ ty = cr + 1)

_apply_click(grid, cr, cc, pw, ph, colors_pool) ==
    [ty \in 0..(ph - 1) |->
        [tx \in 0..(pw - 1) |->
            IF IsClickTarget(tx, ty, cr, cc)
            THEN NextColor(colors_pool, grid[ty][tx])
            ELSE grid[ty][tx]]]

_is_solved(grid, target, pw, ph) ==
    \A r \in 0..(ph - 1) : \A c \in 0..(pw - 1) : grid[r][c] = target

\* [[target] * pw for _ in range(ph)]
SolvedGrid(target, pw, ph) == [r \in 0..(ph - 1) |-> [c \in 0..(pw - 1) |-> target]]

RECURSIVE ApplyClicks(_, _, _, _, _)
ApplyClicks(grid, clicks, pw, ph, colors_pool) ==
    IF clicks = <<>> THEN grid
    ELSE ApplyClicks(_apply_click(grid, Head(clicks)[1], Head(clicks)[2],
                                  pw, ph, colors_pool),
                     Tail(clicks), pw, ph, colors_pool)

_verify_solution(grid, solution, target, pw, ph, colors_pool) ==
    _is_solved(ApplyClicks(grid, solution, pw, ph, colors_pool), target, pw, ph)

(***************************************************************************)
(* ga85 : _solve_bfs.  The queue is a sequence read at index i (popleft);  *)
(* the result is [found, moves, queue]: found = FALSE stands for None,     *)
(* queue is everything that was appended to the queue up to the return.    *)
(***************************************************************************)
\* a recorded move list with the row and the column of the click exchanged
NewMovesSwapped(moves, r, c) == Append(moves, <<c, r>>)

\* new_moves = moves + [(r, c)]
NewMoves(moves, r, c) == Append(moves, <<r, c>>)

_solve_bfs(grid, target, pw, ph, colors_pool, max_depth) ==
    LET RECURSIVE Expand(_, _, _, _)
        \* the loops "for r in range(ph): for c in range(pw)" from click k on
        Expand(node, k, queue, visited) ==
            IF k = pw * ph
            THEN [found |-> FALSE, moves |-> <<>>, queue |-> queue, visited |-> visited]
            ELSE LET r == k \div pw
                     c == k % pw
                     g2 == _apply_click(node.g, r, c, pw, ph, colors_pool)
                     new_moves == NewMoves(node.moves, r, c)
                 IN  IF _is_solved(g2, target, pw, ph)
                     THEN [found |-> TRUE, moves |-> new_moves,
                           queue |-> queue, visited |-> visited]
                     ELSE IF g2 \notin visited
                          THEN Expand(node, k + 1,
                                      Append(queue, [g |-> g2, moves |-> new_moves]),
                                      visited \cup {g2})
                          ELSE Expand(node, k + 1, queue, visited)
        RECURSIVE Loop(_, _, _)
        Loop(queue, i, visited) ==
            IF i > Len(queue)
            THEN [found |-> FALSE, moves |-> <<>>, queue |-> queue]
            ELSE IF Len(queue[i].moves) >= max_depth
                 THEN Loop(queue, i + 1, visited)
                 ELSE LET e == Expand(queue[i], 0, queue, visited)
                      IN  IF e.found
                          THEN [found |-> TRUE, moves |-> e.moves, queue |-> e.queue]
                          ELSE Loop(e.queue, i + 1, e.visited)
    IN  IF _is_solved(grid, target, pw, ph)
        THEN [found |-> TRUE, moves |-> <<>>, queue |-> <<>>]
        ELSE Loop(<< [g |-> grid, moves |-> <<>>] >>, 1, {grid})

(***************************************************************************)
(* ga85 : scramble strategies                                              *)
(***************************************************************************)
GaCells(pw, ph) == (0..(ph - 1)) \X (0..(pw - 1))       \* (row, col)

\* Sequences of exactly n cells without two equal consecutive entries.
RECURSIVE NoRepeatSeqs(_, _)
NoRepeatSeqs(cells, n) ==
    IF n = 0 THEN { <<>> }
    ELSE { Append(s, p) : s \in NoRepeatSeqs(cells, n - 1), p \in cells } \
         { Append(s, s[Len(s)]) : s \in (NoRepeatSeqs(cells, n - 1) \ { <<>> }) }

\* Results of _strategy_random(rng, pw, ph, num).  The loop draws up to
\* num * 3 positions; a draw equal to the previous kept one is skipped, any
\* other is kept; it stops at num kept clicks.  The first draw is always
\* kept (prev = (-1, -1)), every later draw can be a skip, so the results
\* are the sequences of 1..num cells without an immediate repeat.
_strategy_random(pw, ph, num) ==
    UNION { NoRepeatSeqs(GaCells(pw, ph), n) : n \in 1..num }

\* The filter loop of _generate_solvable_grid: drop a click equal to the
\* previously kept click.
RECURSIVE FilterClicks(_, _)
FilterClicks(clicks, prev) ==
    IF clicks = <<>> THEN <<>>
    ELSE IF Head(clicks) = prev THEN FilterClicks(Tail(clicks), prev)
         ELSE <<Head(clicks)>> \o FilterClicks(Tail(clicks), Head(clicks))

\* "for cr, cc in reversed(scramble_clicks): for _ in range(nc - 1): append"
RECURSIVE Repeat(_, _)
Repeat(x, n) == IF n <= 0 THEN <<>> ELSE <<x>> \o Repeat(x, n - 1)

RECURSIVE RepeatEach(_, _)
RepeatEach(s, n) ==
    IF s = <<>> THEN <<>> ELSE Repeat(Head(s), n) \o RepeatEach(Tail(s), n)

\* a solution that undoes each scramble click with one click
BuildSolutionOnce(scramble_clicks, nc) == Reverse(scramble_clicks)

\* the loops that build solution from reversed(scramble_clicks)
BuildSolution(scramble_clicks, nc) == RepeatEach(Reverse(scramble_clicks), nc - 1)

min_scrambles(level_idx) == Max(2, level_idx + 2)
max_scrambles(level_idx) == min_scrambles(level_idx) + 3

\* all sequences of up to n elements of S
RECURSIVE GcSeqs(_, _)
GcSeqs(S, n) ==
    IF n = 0 THEN { <<>> }
    ELSE LET shorter == GcSeqs(S, n - 1)
         IN  shorter \cup { Append(s, x) : s \in { t \in shorter : Len(t) = n - 1 }, x \in S }

\* longest scramble_clicks explored for the strategies of levels 3+
GaMaxAdvanced == 3

\* scramble_clicks as returned by the strategy chosen for the level; the
\* strategies of _ADVANCED_STRATEGIES return up to num cells, some of them
\* with repeats
ScrambleChoices(pw, ph, level_idx, num) ==
    IF level_idx < 2 THEN _strategy_random(pw, ph, num)
    ELSE GcSeqs(GaCells(pw, ph), Min(num, GaMaxAdvanced)) \ { <<>> }

GaDef(idx) ==
    [pw |-> Min(LEVEL_DEFS[idx + 1].pw, GaMaxDim),
     ph |-> Min(LEVEL_DEFS[idx + 1].ph, GaMaxDim),
     num_colors |-> LEVEL_DEFS[idx + 1].num_colors]
GaTarget(idx) == LEVEL_TARGET_COLORS[idx + 1]

(***************************************************************************)
(* ga85 : _generate_solvable_grid, one action per loop iteration           *)
(***************************************************************************)
\* an attempt that does not look whether the scrambled grid is solved
GaFinishKeeping(grid, filtered, pw, ph, nc, target) ==
    LET pool == ColorsPool(nc)
        solution == BuildSolution(filtered, nc)
    IN  IF FALSE
        THEN [ret |-> FALSE, grid |-> grid, scramble |-> <<>>,
              solution |-> <<>>, via |-> "continue_solved"]
        ELSE IF ~ _verify_solution(grid, solution, target, pw, ph, pool)
        THEN [ret |-> FALSE, grid |-> grid, scramble |-> <<>>,
              solution |-> <<>>, via |-> "continue_unverified"]
        ELSE IF pw <= 4 /\ ph <= 4 /\ nc <= 2
        THEN LET bfs_sol == _solve_bfs(grid, target, pw, ph, pool, BfsMaxDepth)
             IN  IF bfs_sol.found /\ Len(bfs_sol.moves) < Len(solution)
                 THEN [ret |-> TRUE, grid |-> grid, scramble |-> filtered,
                       solution |-> bfs_sol.moves, via |-> "bfs"]
                 ELSE [ret |-> TRUE, grid |-> grid, scramble |-> filtered,
                       solution |-> solution, via |-> "reverse"]
        ELSE [ret |-> TRUE, grid |-> grid, scramble |-> filtered,
              solution |-> solution, via |-> "reverse"]

\* an attempt that takes the BFS solution also when it is not shorter
GaFinishEager(grid, filtered, pw, ph, nc, target) ==
    LET pool == ColorsPool(nc)
        solution == BuildSolution(filtered, nc)
    IN  IF _is_solved(grid, target, pw, ph)
        THEN [ret |-> FALSE, grid |-> grid, scramble |-> <<>>,
              solution |-> <<>>, via |-> "continue_solved"]
        ELSE IF ~ _verify_solution(grid, solution, target, pw, ph, pool)
        THEN [ret |-> FALSE, grid |-> grid, scramble |-> <<>>,
              solution |-> <<>>, via |-> "continue_unverified"]
        ELSE IF pw <= 4 /\ ph <= 4 /\ nc <= 2
        THEN LET bfs_sol == _solve_bfs(grid, target, pw, ph, pool, BfsMaxDepth)
             IN  IF bfs_sol.found /\ Len(bfs_sol.moves) <= Len(solution)
                 THEN [ret |-> TRUE, grid |-> grid, scramble |-> filtered,
                       solution |-> bfs_sol.moves, via |-> "bfs"]
                 ELSE [ret |-> TRUE, grid |-> grid, scramble |-> filtered,
                       solution |-> solution, via |-> "reverse"]
        ELSE [ret |-> TRUE, grid |-> grid, scramble |-> filtered,
              solution |-> solution, via |-> "reverse"]

\* The rest of one "for _attempt in range(500)" iteration once the filter
\* loop has left grid and filtered: "continue" or a returned (grid, solution).
GaFinish(grid, filtered, pw, ph, nc, target) ==
    LET pool == ColorsPool(nc)
        solution == BuildSolution(filtered, nc)
    IN  IF _is_solved(grid, target, pw, ph)
        THEN [ret |-> FALSE, grid |-> grid, scramble |-> <<>>,
              solution |-> <<>>, via |-> "continue_solved"]
        ELSE IF ~ _verify_solution(grid, solution, target, pw, ph, pool)
        THEN [ret |-> FALSE, grid |-> grid, scramble |-> <<>>,
              solution |-> <<>>, via |-> "continue_unverified"]
        ELSE IF pw <= 4 /\ ph <= 4 /\ nc <= 2
        THEN LET bfs_sol == _solve_bfs(grid, target, pw, ph, pool, BfsMaxDepth)
             IN  IF bfs_sol.found /\ Len(bfs_sol.moves) < Len(solution)
                 THEN [ret |-> TRUE, grid |-> grid, scramble |-> filtered,
                       solution |-> bfs_sol.moves, via |-> "bfs"]
                 ELSE [ret |-> TRUE, grid |-> grid, scramble |-> filtered,
                       solution |-> solution, via |-> "reverse"]
        ELSE [ret |-> TRUE, grid |-> grid, scramble |-> filtered,
              solution |-> solution, via |-> "reverse"]

\* The body of one "for _attempt in range(500)" iteration after the strategy
\* returned clicks: the outcome is "continue" or a returned (grid, solution).
GaAttempt(idx, clicks) ==
    LET d == GaDef(idx)
        pool == ColorsPool(d.num_colors)
        filtered == FilterClicks(clicks, <<-1, -1>>)
        grid == ApplyClicks(SolvedGrid(GaTarget(idx), d.pw, d.ph), filtered, d.pw, d.ph, pool)
    IN  GaFinish(grid, filtered, d.pw, d.ph, d.num_colors, GaTarget(idx))

\* pm07: the colour codes
C_BLACK == 0
C_DARK_GRAY == 1
C_RED == 2
C_GREEN == 3
C_BLUE == 4
C_YELLOW == 5
C_MAGENTA == 6
C_ORANGE == 7
C_CYAN == 8
C_BROWN == 9
C_PINK == 10
C_LIME == 11
C_PURPLE == 12
C_TEAL == 13
C_LIGHT_GRAY == 15

\* pm07 not started: the fields as Pm07.__init__ leaves them
PmIdle ==
    /\ pm_pc = "idle"
    /\ pm_level = 0
    /\ pm_attempt = 0
    /\ pm_grid = <<>>
    /\ pm_cursor_x = 0
    /\ pm_cursor_y = 0
    /\ pm_extra = <<>>
    /\ pm_prev_color = C_BLACK
    /\ pm_history = <<>>

\* cd01 not started
CdIdle ==
    /\ cd_pc = "idle"
    /\ cd_level = 0
    /\ cd_grid = <<>>
    /\ cd_cursor_x = 0
    /\ cd_cursor_y = 0
    /\ cd_selected_color = 0
    /\ cd_drawn_paths = <<>>
    /\ cd_step_count = 0
    /\ cd_action = "none"

GaStart ==
    /\ ga_pc = "loop"
    /\ ga_level \in GaLevels
    /\ ga_attempt = 0
    /\ ga_scramble = <<>>
    /\ ga_grid = SolvedGrid(GaTarget(ga_level), GaDef(ga_level).pw, GaDef(ga_level).ph)
    /\ ga_solution = <<>>
    /\ ga_via = "none"

\* bx02 not started
BxIdle ==
    /\ bx_pc = "idle"
    /\ bx_level = 0
    /\ bx_player = <<0, 0>>
    /\ bx_boxes = <<>>
    /\ bx_coins = {}
    /\ bx_removed_coins = {}
    /\ bx_lives = 3
    /\ bx_remaining = 0
    /\ bx_flash_active = FALSE

\* the click-by-click attempt not started
GcIdle ==
    /\ gc_pc = "idle"
    /\ gc_pw = 0
    /\ gc_ph = 0
    /\ gc_nc = 0
    /\ gc_heap = <<>>
    /\ gc_start = <<>>
    /\ gc_grid = <<>>
    /\ gc_todo = <<>>
    /\ gc_prev = <<-1, -1>>
    /\ gc_filtered = <<>>
    /\ gc_solution = <<>>
    /\ gc_via = "none"
    /\ gc_history = <<>>
    /\ gc_click = <<-1, -1>>

GaInit == GaStart /\ PmIdle /\ CdIdle /\ BxIdle /\ GcIdle

GenAttempt ==
    /\ ga_pc = "loop"
    /\ ga_attempt < MaxAttempts
    /\ \E num \in min_scrambles(ga_level)..max_scrambles(ga_level) :
       \E clicks \in ScrambleChoices(GaDef(ga_level).pw, GaDef(ga_level).ph,
                                     ga_level, num) :
          LET a == GaAttempt(ga_level, clicks)
          IN  /\ ga_grid' = a.grid
              /\ ga_scramble' = a.scramble
              /\ ga_solution' = a.solution
              /\ ga_via' = a.via
              /\ ga_pc' = IF a.ret THEN "done" ELSE "loop"
              /\ ga_attempt' = IF a.ret THEN ga_attempt ELSE ga_attempt + 1
    /\ UNCHANGED <<ga_level, pm_vars, cd_vars, bx_vars, gc_vars>>

\* a fallback that clicks the corner (0, 0) but still answers the centre
GenFallbackCorner ==
    /\ ga_pc = "loop"
    /\ ga_attempt = MaxAttempts
    /\ LET d == GaDef(ga_level)
           pool == ColorsPool(d.num_colors)
       IN  /\ ga_grid' = _apply_click(SolvedGrid(GaTarget(ga_level), d.pw, d.ph),
                                      0, 0, d.pw, d.ph, pool)
           /\ ga_solution' = Repeat(<<d.ph \div 2, d.pw \div 2>>, d.num_colors - 1)
    /\ ga_scramble' = <<>>
    /\ ga_via' = "fallback"
    /\ ga_pc' = "done"
    /\ UNCHANGED <<ga_level, ga_attempt, pm_vars, cd_vars, bx_vars, gc_vars>>

\* "Fallback -- single click at center", after the loop ran out
GenFallback ==
    /\ ga_pc = "loop"
    /\ ga_attempt = MaxAttempts
    /\ LET d == GaDef(ga_level)
           pool == ColorsPool(d.num_colors)
       IN  /\ ga_grid' = _apply_click(SolvedGrid(GaTarget(ga_level), d.pw, d.ph),
                                      d.ph \div 2, d.pw \div 2, d.pw, d.ph, pool)
           /\ ga_solution' = Repeat(<<d.ph \div 2, d.pw \div 2>>, d.num_colors - 1)
    /\ ga_scramble' = <<>>
    /\ ga_via' = "fallback"
    /\ ga_pc' = "done"
    /\ UNCHANGED <<ga_level, ga_attempt, pm_vars, cd_vars, bx_vars, gc_vars>>

GenNext == GenAttempt \/ GenFallback

SpecGen == GaInit /\ [][GenNext]_vars

(***************************************************************************)
(* pm07 : constants and helpers                                            *)
(***************************************************************************)
\* grid_size of the seven levels
levels == << <<8, 8>>, <<8, 8>>, <<8, 8>>, <<8, 8>>, <<8, 8>>, <<8, 8>>, <<10, 10>> >>

\* Model sizes.  Level 2 is generated on an L2Dim x L2Dim board, levels 3
\* and 4 on a PmDim x PmDim board and level 5 on an L5Dim x L5Dim board;
\* level 6 keeps its 8 x 8 board because its puzzles are fixed data.
L2Dim == 3
\* level 1 is generated on an L1Dim x L1Dim board
L1Dim == 3
PmDim == 5
L5Dim == 4
\* level 7 is generated on an L7Width x L7Height board
L7Width == 6
L7Height == 5
\* at most PmMaxExtra extra walls (level 3) and PmMaxBars bars per
\* orientation (level 4) are drawn, and at most PmMaxGems gems are placed in level 4
PmMaxExtra == 2
PmMaxBars == 2
PmMaxGems == 1
\* at most L3MaxGems gems are placed in level 3
L3MaxGems == 2
\* steps are taken while the undo history is shorter than this
PmMaxHistory == 2

grid_size(idx) ==
    IF idx = 0
    THEN <<Min(levels[idx + 1][1], L1Dim), Min(levels[idx + 1][2], L1Dim)>>
    ELSE IF idx = 1
    THEN <<Min(levels[idx + 1][1], L2Dim), Min(levels[idx + 1][2], L2Dim)>>
    ELSE IF idx \in {2, 3}
    THEN <<Min(levels[idx + 1][1], PmDim), Min(levels[idx + 1][2], PmDim)>>
    ELSE IF idx = 4
    THEN <<Min(levels[idx + 1][1], L5Dim), Min(levels[idx + 1][2], L5Dim)>>
    ELSE IF idx = 6
    THEN <<Min(levels[idx + 1][1], L7Width), Min(levels[idx + 1][2], L7Height)>>
    ELSE levels[idx + 1]

\* ga85 not started
GaIdle ==
    /\ ga_pc = "idle"
    /\ ga_level = 0
    /\ ga_attempt = 0
    /\ ga_scramble = <<>>
    /\ ga_grid = <<>>
    /\ ga_solution = <<>>
    /\ ga_via = "none"

_in_bounds(x, y, w, h) == 0 <= x /\ x < w /\ 0 <= y /\ y < h

_blank_grid(w, h, color) == [y \in 0..(h - 1) |-> [x \in 0..(w - 1) |-> color]]

\* self._grid[y][x] = color for every (x, y) of cells
Paint(grid, cells, color) ==
    [y \in DOMAIN grid |->
        [x \in DOMAIN grid[y] |-> IF <<x, y>> \in cells THEN color ELSE grid[y][x]]]

AllCells(w, h) == {<<x, y>> : x \in 0..(w - 1), y \in 0..(h - 1)}

\* the cells of grid that hold color
CellsOf(grid, color) ==
    {c \in {<<x, y>> : x \in DOMAIN grid[0], y \in DOMAIN grid} : grid[c[2]][c[1]] = color}

\* range(lo, hi, step)
StepRange(lo, hi, step) == {v \in lo..(hi - 1) : (v - lo) % step = 0}

\* the GameAction members of the four directional actions and of undo
ACTION1 == "ACTION1"
ACTION2 == "ACTION2"
ACTION3 == "ACTION3"
ACTION4 == "ACTION4"
ACTION7 == "ACTION7"
DirActions == {ACTION1, ACTION2, ACTION3, ACTION4}

_get_dir(action_id) ==
    IF action_id = ACTION1 THEN <<0, -1>>
    ELSE IF action_id = ACTION2 THEN <<0, 1>>
    ELSE IF action_id = ACTION3 THEN <<-1, 0>>
    ELSE IF action_id = ACTION4 THEN <<1, 0>>
    ELSE <<0, 0>>

\* directions = [(0, -1), (0, 1), (-1, 0), (1, 0)] of the BFS helpers
directions == << <<0, -1>>, <<0, 1>>, <<-1, 0>>, <<1, 0>> >>

\* the tuple _save_state appends; _phase, _last_dx and _last_dy are never
\* written by a level and are left out
PmSnapshot == [grid |-> pm_grid, cursor_x |-> pm_cursor_x,
               cursor_y |-> pm_cursor_y, prev_color |-> pm_prev_color,
               extra |-> pm_extra]

_save_state == Append(pm_history, PmSnapshot)

\* n rounds of a retry loop "draw a piece until none of its cells is used".
\* A round adds one of the pieces that fit, or nothing when every draw of
\* the round hit a used cell, which needs a piece that does not fit.
\* The value is the set of the used sets the rounds can produce.
RECURSIVE PlaceRetry(_, _, _)
PlaceRetry(used, n, pieces) ==
    IF n = 0 THEN {used}
    ELSE LET fit == {p \in pieces : p \cap used = {}}
         IN  UNION {PlaceRetry(used \cup p, n - 1, pieces) : p \in fit}
             \cup (IF fit # pieces THEN PlaceRetry(used, n - 1, pieces) ELSE {})

\* the values rng.randint(lo, hi) can take, capped by the model bound cap
CappedRandint(lo, hi, cap) == Min(lo, cap)..Min(hi, cap)

(***************************************************************************)
(* pm07 : level 3, ice slide                                               *)
(***************************************************************************)
\* the inner "while True" of _can_reach_by_slide: slide from (sx, sy)
RECURSIVE BfsSlide(_, _, _, _, _, _, _, _, _, _)
BfsSlide(grid, sx, sy, ddx, ddy, target_x, target_y, w, h, passed_target) ==
    LET nx == sx + ddx
        ny == sy + ddy
    IN  IF ~ _in_bounds(nx, ny, w, h)
        THEN [sx |-> sx, sy |-> sy, passed_target |-> passed_target]
        ELSE IF grid[ny][nx] = C_DARK_GRAY
        THEN [sx |-> sx, sy |-> sy, passed_target |-> passed_target]
        ELSE BfsSlide(grid, nx, ny, ddx, ddy, target_x, target_y, w, h,
                      passed_target \/ (nx = target_x /\ ny = target_y))

_can_reach_by_slide(grid, target_x, target_y, w, h) ==
    LET \* for ddx, ddy in directions, from direction k on
        RECURSIVE Dirs(_, _, _, _)
        Dirs(cur, k, queue, visited) ==
            IF k > Len(directions)
            THEN [ret |-> FALSE, queue |-> queue, visited |-> visited]
            ELSE LET s == BfsSlide(grid, cur[1], cur[2], directions[k][1],
                                   directions[k][2], target_x, target_y, w, h, FALSE)
                 IN  IF s.passed_target
                     THEN [ret |-> TRUE, queue |-> queue, visited |-> visited]
                     ELSE IF <<s.sx, s.sy>> \notin visited
                     THEN Dirs(cur, k + 1, Append(queue, <<s.sx, s.sy>>),
                               visited \cup {<<s.sx, s.sy>>})
                     ELSE Dirs(cur, k + 1, queue, visited)
        \* while queue
        RECURSIVE Loop(_, _)
        Loop(queue, visited) ==
            IF queue = <<>> THEN FALSE
            ELSE LET r == Dirs(Head(queue), 1, Tail(queue), visited)
                 IN  IF r.ret THEN TRUE ELSE Loop(r.queue, r.visited)
    IN  Loop(<< <<0, 0>> >>, {<<0, 0>>})

\* the pillar sets: each spot of the loose grid is a wall with probability 0.7
L3PillarChoices(w, h) ==
    SUBSET {<<px, py>> : px \in StepRange(2, w - 1, 3), py \in StepRange(2, h - 1, 3)}

\* the cells an extra wall can be drawn at
L3Interior(w, h) == {<<wx, wy>> : wx \in 1..(w - 2), wy \in 1..(h - 2)}

\* the used sets after the extra-wall rounds
L3ExtraWalls(used, extra, w, h) ==
    PlaceRetry(used, extra, {{c} : c \in L3Interior(w, h)})

\* a gem candidate that is kept although the slide check fails
L3GemCandidatesUnchecked(grid, used, w, h) ==
    AllCells(w, h) \ used

\* the draws (gx, gy) of the gem loop that keep their gem: not used, and
\* collectible with the gem temporarily placed
L3GemCandidates(grid, used, w, h) ==
    {g \in AllCells(w, h) \ used :
        _can_reach_by_slide(Paint(grid, {g}, C_GREEN), g[1], g[2], w, h)}

\* the gem loop from placed_gems on.  It ends with num_gems gems, or earlier
\* when the 300 gem_attempts are used up by draws that are used cells or
\* fail the check (the start cell is always such a draw); a failing gem is
\* set back to C_BLACK.  The value is the set of outcomes.
RECURSIVE L3PlaceGems(_, _, _, _, _, _)
L3PlaceGems(grid, used, placed_gems, num_gems, w, h) ==
    IF placed_gems = num_gems
    THEN {[grid |-> grid, placed_gems |-> placed_gems]}
    ELSE {[grid |-> grid, placed_gems |-> placed_gems]}
         \cup UNION {L3PlaceGems(Paint(grid, {g}, C_GREEN), used \cup {g},
                                 placed_gems + 1, num_gems, w, h) :
                        g \in L3GemCandidates(grid, used, w, h)}

\* on_set_level for level 3 (index 2)
_setup_level_3 ==
    /\ pm_pc = "set_level"
    /\ pm_level = 2
    /\ LET w == grid_size(pm_level)[1]
           h == grid_size(pm_level)[2]
       IN  \E pillars \in L3PillarChoices(w, h) :
           \E extra \in CappedRandint(2, 4, PmMaxExtra) :
           \E used \in L3ExtraWalls({<<0, 0>>} \cup pillars, extra, w, h) :
             LET wall_positions == used \ {<<0, 0>>}
                 walled == Paint(_blank_grid(w, h, C_BLACK), wall_positions, C_DARK_GRAY)
             IN  \E res \in L3PlaceGems(walled, used, 0, Min(3, L3MaxGems), w, h) :
                   /\ pm_grid' = res.grid
                   /\ pm_extra' = [gems_total |-> res.placed_gems,
                                   gems_left |-> res.placed_gems]
    /\ pm_cursor_x' = 0
    /\ pm_cursor_y' = 0
    /\ pm_history' = <<>>
    /\ pm_pc' = "play"
    /\ UNCHANGED <<pm_prev_color, pm_level, pm_attempt, ga_vars, cd_vars, bx_vars, gc_vars>>

\* a slide that counts the gems it passes and leaves them on the ice
RECURSIVE L3SlideCounting(_, _, _, _, _, _, _, _)
L3SlideCounting(grid, cx, cy, dx, dy, w, h, gems_left) ==
    LET nx == cx + dx
        ny == cy + dy
    IN  IF ~_in_bounds(nx, ny, w, h)
        THEN [grid |-> grid, cx |-> cx, cy |-> cy, gems_left |-> gems_left]
        ELSE IF grid[ny][nx] = C_DARK_GRAY
        THEN [grid |-> grid, cx |-> cx, cy |-> cy, gems_left |-> gems_left]
        ELSE IF grid[ny][nx] = C_GREEN
        THEN L3SlideCounting(grid, nx, ny, dx, dy, w, h, gems_left - 1)
        ELSE L3SlideCounting(grid, nx, ny, dx, dy, w, h, gems_left)

\* a slide that passes over gems without picking them up
RECURSIVE L3SlidePassing(_, _, _, _, _, _, _, _)
L3SlidePassing(grid, cx, cy, dx, dy, w, h, gems_left) ==
    LET nx == cx + dx
        ny == cy + dy
    IN  IF ~ _in_bounds(nx, ny, w, h)
        THEN [grid |-> grid, cx |-> cx, cy |-> cy, gems_left |-> gems_left]
        ELSE IF grid[ny][nx] = C_DARK_GRAY
        THEN [grid |-> grid, cx |-> cx, cy |-> cy, gems_left |-> gems_left]
        ELSE L3SlidePassing(grid, nx, ny, dx, dy, w, h, gems_left)

\* the "while True" of _step_level_3: slide from (cx, cy), collecting gems
RECURSIVE L3Slide(_, _, _, _, _, _, _, _)
L3Slide(grid, cx, cy, dx, dy, w, h, gems_left) ==
    LET nx == cx + dx
        ny == cy + dy
    IN  IF ~ _in_bounds(nx, ny, w, h)
        THEN [grid |-> grid, cx |-> cx, cy |-> cy, gems_left |-> gems_left]
        ELSE IF grid[ny][nx] = C_DARK_GRAY
        THEN [grid |-> grid, cx |-> cx, cy |-> cy, gems_left |-> gems_left]
        ELSE IF grid[ny][nx] = C_GREEN
        THEN L3Slide([grid EXCEPT ![ny][nx] = C_BLACK], nx, ny, dx, dy, w, h,
                     gems_left - 1)
        ELSE L3Slide(grid, nx, ny, dx, dy, w, h, gems_left)

_step_level_3 ==
    /\ pm_pc = "play"
    /\ pm_level = 2
    /\ Len(pm_history) < PmMaxHistory
    /\ \E id \in DirActions :
         LET d == _get_dir(id)
             r == L3Slide(pm_grid, pm_cursor_x, pm_cursor_y, d[1], d[2],
                          grid_size(pm_level)[1], grid_size(pm_level)[2],
                          pm_extra.gems_left)
         IN  /\ pm_history' = _save_state
             /\ pm_grid' = r.grid
             /\ pm_cursor_x' = r.cx
             /\ pm_cursor_y' = r.cy
             /\ pm_extra' = [pm_extra EXCEPT !.gems_left = r.gems_left]
             /\ pm_pc' = IF r.gems_left <= 0 THEN "next_level" ELSE "play"
    /\ UNCHANGED <<pm_prev_color, pm_level, pm_attempt, ga_vars, cd_vars, bx_vars, gc_vars>>

(***************************************************************************)
(* pm07 : level 4, gem collector                                           *)
(***************************************************************************)
_bfs_reachable_cells(grid, start_x, start_y, w, h) ==
    LET \* for ddx, ddy in [...], from direction k on
        RECURSIVE Dirs(_, _, _, _)
        Dirs(cur, k, queue, visited) ==
            IF k > Len(directions)
            THEN [queue |-> queue, visited |-> visited]
            ELSE LET nx == cur[1] + directions[k][1]
                     ny == cur[2] + directions[k][2]
                 IN  IF /\ _in_bounds(nx, ny, w, h)
                        /\ <<nx, ny>> \notin visited
                        /\ grid[ny][nx] # C_DARK_GRAY
                     THEN Dirs(cur, k + 1, Append(queue, <<nx, ny>>),
                               visited \cup {<<nx, ny>>})
                     ELSE Dirs(cur, k + 1, queue, visited)
        \* while queue
        RECURSIVE Loop(_, _)
        Loop(queue, visited) ==
            IF queue = <<>> THEN visited
            ELSE LET r == Dirs(Head(queue), 1, Tail(queue), visited)
                 IN  Loop(r.queue, r.visited)
    IN  Loop(<< <<start_x, start_y>> >>, {<<start_x, start_y>>})

\* the horizontal bars that can be drawn: bx in 1..w-3, by in 1..h-2,
\* bar_len in 2..3, all cells in bounds
L4HBars(w, h) ==
    {bar \in {{<<bx + i, by>> : i \in 0..(bar_len - 1)} :
                 bx \in 1..(w - 3), by \in 1..(h - 2), bar_len \in 2..3} :
        \A c \in bar : _in_bounds(c[1], c[2], w, h)}

\* the vertical bars that can be drawn: bx in 1..w-2, by in 1..h-3
L4VBars(w, h) ==
    {bar \in {{<<bx, by + i>> : i \in 0..(bar_len - 1)} :
                 bx \in 1..(w - 2), by \in 1..(h - 3), bar_len \in 2..3} :
        \A c \in bar : _in_bounds(c[1], c[2], w, h)}

\* the subsets of S with k elements
RECURSIVE KSubsets(_, _)
KSubsets(S, k) ==
    IF k = 0 THEN {{}}
    ELSE {T \in {U \cup {c} : U \in KSubsets(S, k - 1), c \in S} : Cardinality(T) = k}

\* on_set_level for level 4 (index 3)
_setup_level_4 ==
    /\ pm_pc = "set_level"
    /\ pm_level = 3
    /\ LET w == grid_size(pm_level)[1]
           h == grid_size(pm_level)[2]
       IN  \E num_h \in CappedRandint(3, 5, PmMaxBars) :
           \E used_h \in PlaceRetry({<<0, 0>>}, num_h, L4HBars(w, h)) :
           \E num_v \in CappedRandint(3, 5, PmMaxBars) :
           \E used \in PlaceRetry(used_h, num_v, L4VBars(w, h)) :
             LET wall_positions == used \ {<<0, 0>>}
                 walled == Paint(_blank_grid(w, h, C_BLACK), wall_positions, C_DARK_GRAY)
                 reachable == _bfs_reachable_cells(walled, 0, 0, w, h)
                 candidates == {c \in reachable :
                                   c \notin used /\ walled[c[2]][c[1]] = C_BLACK}
             IN  \E num_gems \in CappedRandint(4, 6, PmMaxGems) :
                 \* the first num_gems cells of the shuffled candidates
                 \E gems \in KSubsets(candidates,
                                      Min(num_gems, Cardinality(candidates))) :
                   /\ pm_grid' = Paint(walled, gems, C_YELLOW)
                   /\ pm_extra' = [gems_total |-> Cardinality(gems),
                                   gems_left |-> Cardinality(gems),
                                   wall_positions |-> wall_positions]
    /\ pm_cursor_x' = 0
    /\ pm_cursor_y' = 0
    /\ pm_history' = <<>>
    /\ pm_pc' = "play"
    /\ UNCHANGED <<pm_prev_color, pm_level, pm_attempt, ga_vars, cd_vars, bx_vars, gc_vars>>

\* a move that walks into walls
L4MoveThroughWalls(x, y, id, wall_positions, w, h) ==
    LET nx == x + _get_dir(id)[1]
        ny == y + _get_dir(id)[2]
    IN  IF ~ _in_bounds(nx, ny, w, h) THEN <<x, y>> ELSE <<nx, ny>>

\* the cell _step_level_4 moves the cursor to from (x, y): the cell itself
\* when the neighbour is out of bounds or in wall_positions
L4Move(x, y, id, wall_positions, w, h) ==
    LET nx == x + _get_dir(id)[1]
        ny == y + _get_dir(id)[2]
    IN  IF ~ _in_bounds(nx, ny, w, h) THEN <<x, y>>
        ELSE IF <<nx, ny>> \in wall_positions THEN <<x, y>>
        ELSE <<nx, ny>>

\* _step_level_4 with the action id id
L4StepWith(id) ==
    /\ pm_pc = "play"
    /\ pm_level = 3
    /\ Len(pm_history) < PmMaxHistory
    /\ LET to == L4Move(pm_cursor_x, pm_cursor_y, id, pm_extra.wall_positions,
                        grid_size(pm_level)[1], grid_size(pm_level)[2])
           moved == to # <<pm_cursor_x, pm_cursor_y>>
           gem == moved /\ pm_grid[to[2]][to[1]] = C_YELLOW
           gems_left == IF gem THEN pm_extra.gems_left - 1 ELSE pm_extra.gems_left
       IN  /\ pm_history' = _save_state
           /\ pm_cursor_x' = to[1]
           /\ pm_cursor_y' = to[2]
           /\ pm_grid' = IF gem THEN [pm_grid EXCEPT ![to[2]][to[1]] = C_BLACK]
                         ELSE pm_grid
           /\ pm_extra' = [pm_extra EXCEPT !.gems_left = gems_left]
           \* a rejected move returns before the win test
           /\ pm_pc' = IF moved /\ gems_left <= 0 THEN "next_level" ELSE "play"
    /\ UNCHANGED <<pm_prev_color, pm_level, pm_attempt, ga_vars, cd_vars, bx_vars, gc_vars>>

_step_level_4 == \E id \in DirActions : L4StepWith(id)

\* an undo that leaves self._extra as it is
_undo_keeping_extra ==
    /\ pm_pc = "play"
    /\ IF pm_history # <<>>
       THEN LET s == pm_history[Len(pm_history)]
            IN  /\ pm_grid' = s.grid
                /\ pm_cursor_x' = s.cursor_x
                /\ pm_cursor_y' = s.cursor_y
                /\ pm_prev_color' = s.prev_color
                /\ pm_extra' = pm_extra
                /\ pm_history' = SubSeq(pm_history, 1, Len(pm_history) - 1)
       ELSE UNCHANGED <<pm_grid, pm_cursor_x, pm_cursor_y, pm_prev_color, pm_extra,
                        pm_history>>
    /\ UNCHANGED <<pm_pc, pm_level, pm_attempt, ga_vars, cd_vars, bx_vars, gc_vars>>

(***************************************************************************)
(* pm07 : step() and the specification of levels 3 and 4                   *)
(***************************************************************************)
\* step() with ACTION7
_undo ==
    /\ pm_pc = "play"
    /\ IF pm_history # <<>>
       THEN LET s == pm_history[Len(pm_history)]
            IN  /\ pm_grid' = s.grid
                /\ pm_cursor_x' = s.cursor_x
                /\ pm_cursor_y' = s.cursor_y
                /\ pm_prev_color' = s.prev_color
                /\ pm_extra' = s.extra
                /\ pm_history' = SubSeq(pm_history, 1, Len(pm_history) - 1)
       ELSE UNCHANGED <<pm_grid, pm_cursor_x, pm_cursor_y, pm_prev_color, pm_extra,
                        pm_history>>
    /\ UNCHANGED <<pm_pc, pm_level, pm_attempt, ga_vars, cd_vars, bx_vars, gc_vars>>

\* the game object before on_set_level of the level idx
PmStart(idx) ==
    /\ pm_pc = "set_level"
    /\ pm_level = idx
    /\ pm_attempt = 0
    /\ pm_grid = <<>>
    /\ pm_cursor_x = 0
    /\ pm_cursor_y = 0
    /\ pm_extra = <<>>
    /\ pm_prev_color = C_BLACK
    /\ pm_history = <<>>

PmGemsInit == GaIdle /\ CdIdle /\ BxIdle /\ GcIdle /\ \E idx \in {2, 3} : PmStart(idx)

PmGemsNext ==
    \/ _setup_level_3
    \/ _setup_level_4
    \/ _step_level_3
    \/ _step_level_4
    \/ _undo

SpecPmGems == PmGemsInit /\ [][PmGemsNext]_vars

(***************************************************************************)
(* pm07 : level 2, flood walker                                            *)
(***************************************************************************)
\* on_set_level for level 2 (index 1): every cell is c2 with probability
\* 0.4 and c1 otherwise, each cell drawn on its own
_setup_level_2 ==
    /\ pm_pc = "set_level"
    /\ pm_level = 1
    /\ LET w == grid_size(pm_level)[1]
           h == grid_size(pm_level)[2]
       IN  /\ \E c2_cells \in SUBSET AllCells(w, h) :
                 pm_grid' = Paint(_blank_grid(w, h, C_CYAN), c2_cells, C_ORANGE)
           /\ pm_cursor_x' = w \div 2
           /\ pm_cursor_y' = h \div 2
    /\ pm_extra' = [c1 |-> C_CYAN, c2 |-> C_ORANGE]
    /\ pm_history' = <<>>
    /\ pm_pc' = "play"
    /\ UNCHANGED <<pm_prev_color, pm_level, pm_attempt, ga_vars, cd_vars, bx_vars, gc_vars>>

\* the win test of _step_level_2: the entire grid is one colour
L2AllOneColour(grid, w, h) ==
    \A r \in 0..(h - 1) : \A c \in 0..(w - 1) : grid[r][c] = grid[0][0]

_step_level_2 ==
    /\ pm_pc = "play"
    /\ pm_level = 1
    /\ Len(pm_history) < PmMaxHistory
    /\ \E id \in DirActions :
         LET w == grid_size(pm_level)[1]
             h == grid_size(pm_level)[2]
             nx == Max(0, Min(w - 1, pm_cursor_x + _get_dir(id)[1]))
             ny == Max(0, Min(h - 1, pm_cursor_y + _get_dir(id)[2]))
             cur == pm_grid[ny][nx]
             toggled == [pm_grid EXCEPT ![ny][nx] =
                            IF cur = pm_extra.c1 THEN pm_extra.c2 ELSE pm_extra.c1]
         IN  /\ pm_history' = _save_state
             /\ pm_cursor_x' = nx
             /\ pm_cursor_y' = ny
             /\ pm_grid' = toggled
             /\ pm_pc' = IF L2AllOneColour(toggled, w, h) THEN "next_level" ELSE "play"
    /\ UNCHANGED <<pm_prev_color, pm_extra, pm_level, pm_attempt, ga_vars, cd_vars, bx_vars, gc_vars>>

L2Init == GaIdle /\ CdIdle /\ BxIdle /\ GcIdle /\ PmStart(1)

L2Next ==
    \/ _setup_level_2
    \/ _step_level_2
    \/ _undo

SpecL2 == L2Init /\ [][L2Next]_vars

(***************************************************************************)
(* pm07 : level 5, teleport maze                                           *)
(***************************************************************************)
\* at most L5MaxBars bars per orientation and L5MaxPairs teleporter pairs are
\* drawn, and the regeneration loop (range(50)) makes L5MaxGen attempts
L5MaxBars == 1
L5MaxPairs == 1
L5MaxGen == 2

\* teleport_colors
teleport_colors == <<C_RED, C_BLUE>>

\* a search that walks over teleporters without being carried away
_bfs_teleport_reachable_walking(grid, start_x, start_y, target_x, target_y, w, h, teleport_map) ==
    LET \* for ddx, ddy in [...], from direction k on
        RECURSIVE Dirs(_, _, _, _)
        Dirs(cur, k, queue, visited) ==
            IF k > Len(directions)
            THEN [queue |-> queue, visited |-> visited]
            ELSE LET nx == cur[1] + directions[k][1]
                     ny == cur[2] + directions[k][2]
                 IN  IF ~ _in_bounds(nx, ny, w, h)
                     THEN Dirs(cur, k + 1, queue, visited)
                     ELSE IF grid[ny][nx] = C_DARK_GRAY
                     THEN Dirs(cur, k + 1, queue, visited)
                     ELSE LET final == <<nx, ny>>
                              queue1 == IF final \notin visited
                                        THEN Append(queue, final) ELSE queue
                              \* the pre-teleport cell is marked visited too
                              visited1 == visited \cup {final, <<nx, ny>>}
                          IN  Dirs(cur, k + 1, queue1, visited1)
        \* while queue
        RECURSIVE Loop(_, _)
        Loop(queue, visited) ==
            IF queue = <<>> THEN FALSE
            ELSE IF Head(queue) = <<target_x, target_y>> THEN TRUE
            ELSE LET r == Dirs(Head(queue), 1, Tail(queue), visited)
                 IN  Loop(r.queue, r.visited)
    IN  Loop(<< <<start_x, start_y>> >>, {<<start_x, start_y>>})

_bfs_teleport_reachable(grid, start_x, start_y, target_x, target_y, w, h, teleport_map) ==
    LET \* for ddx, ddy in [...], from direction k on
        RECURSIVE Dirs(_, _, _, _)
        Dirs(cur, k, queue, visited) ==
            IF k > Len(directions)
            THEN [queue |-> queue, visited |-> visited]
            ELSE LET nx == cur[1] + directions[k][1]
                     ny == cur[2] + directions[k][2]
                 IN  IF ~ _in_bounds(nx, ny, w, h)
                     THEN Dirs(cur, k + 1, queue, visited)
                     ELSE IF grid[ny][nx] = C_DARK_GRAY
                     THEN Dirs(cur, k + 1, queue, visited)
                     ELSE LET final == IF <<nx, ny>> \in DOMAIN teleport_map
                                       THEN teleport_map[<<nx, ny>>]
                                       ELSE <<nx, ny>>
                              queue1 == IF final \notin visited
                                        THEN Append(queue, final) ELSE queue
                              \* the pre-teleport cell is marked visited too
                              visited1 == visited \cup {final, <<nx, ny>>}
                          IN  Dirs(cur, k + 1, queue1, visited1)
        \* while queue
        RECURSIVE Loop(_, _)
        Loop(queue, visited) ==
            IF queue = <<>> THEN FALSE
            ELSE IF Head(queue) = <<target_x, target_y>> THEN TRUE
            ELSE LET r == Dirs(Head(queue), 1, Tail(queue), visited)
                 IN  Loop(r.queue, r.visited)
    IN  Loop(<< <<start_x, start_y>> >>, {<<start_x, start_y>>})

\* the horizontal bars that can be drawn: bx in 0..w-2, by in 1..h-2,
\* bar_len in 2..4, cut at the edge, at least 2 cells
L5HBars(w, h) ==
    {bar \in {{<<bx + i, by>> : i \in {j \in 0..(bar_len - 1) :
                                        _in_bounds(bx + j, by, w, h)}} :
                 bx \in 0..(w - 2), by \in 1..(h - 2), bar_len \in 2..4} :
        Cardinality(bar) >= 2}

\* the vertical bars that can be drawn: bx in 1..w-2, by in 0..h-2
L5VBars(w, h) ==
    {bar \in {{<<bx, by + i>> : i \in {j \in 0..(bar_len - 1) :
                                        _in_bounds(bx, by + j, w, h)}} :
                 bx \in 1..(w - 2), by \in 0..(h - 2), bar_len \in 2..4} :
        Cardinality(bar) >= 2}

\* the exit loop: (ex, ey) is the first draw that is not used, or, when all
\* 100 draws are used cells, the last draw
L5ExitChoices(used, w, h) ==
    {<<ex, ey>> : ex \in (w \div 2)..(w - 1), ey \in (h \div 2)..(h - 1)}

\* the two placement loops of one teleporter pair: the list pair
L5PairChoices(used, w, h) ==
    LET free == AllCells(w, h) \ used
    IN  {<<>>} \cup {<<a>> : a \in free}
        \cup {pair \in {<<a, b>> : a \in free, b \in free} : pair[1] # pair[2]}

\* the pair loop from pair i (0-based) on; the value is the set of outcomes
RECURSIVE L5PlacePairs(_, _, _, _, _, _, _)
L5PlacePairs(i, num_pairs, grid, used, teleport_map, w, h) ==
    IF i >= num_pairs
    THEN {[grid |-> grid, teleport_map |-> teleport_map]}
    ELSE UNION {
           LET cells == {pair[k] : k \in 1..Len(pair)}
               map == IF Len(pair) = 2
                      THEN [c \in DOMAIN teleport_map \cup cells |->
                              IF c = pair[1] THEN pair[2]
                              ELSE IF c = pair[2] THEN pair[1]
                              ELSE teleport_map[c]]
                      ELSE teleport_map
           IN  L5PlacePairs(i + 1, num_pairs, Paint(grid, cells, teleport_colors[i + 1]),
                            used \cup cells, map, w, h) :
           pair \in L5PairChoices(used, w, h)}

\* the layouts one pass of the regeneration loop can build
L5Layouts(w, h) ==
    UNION {UNION {UNION {
        LET wall_positions == used \ {<<0, 0>>}
            walled == Paint(_blank_grid(w, h, C_BLACK), wall_positions, C_DARK_GRAY)
            exited == Paint(walled, {exit}, C_GREEN)
        IN  {[grid |-> t.grid, wall_positions |-> wall_positions,
              exit_x |-> exit[1], exit_y |-> exit[2],
              teleport_map |-> t.teleport_map] :
                t \in L5PlacePairs(0, Min(2, L5MaxPairs), exited,
                                   used \cup {exit}, <<>>, w, h)} :
        exit \in L5ExitChoices(used, w, h)} :
        used \in UNION {PlaceRetry(used_h, num_v_bars, L5VBars(w, h)) :
                           num_v_bars \in CappedRandint(2, 3, L5MaxBars),
                           used_h \in UNION {PlaceRetry({<<0, 0>>}, num_h_bars, L5HBars(w, h)) :
                                               num_h_bars \in CappedRandint(2, 4, L5MaxBars)}}}}

\* one pass of "for _gen_attempt in range(50)"
L5GenAttempt ==
    /\ pm_pc = "set_level"
    /\ pm_level = 4
    /\ pm_attempt < L5MaxGen
    /\ LET w == grid_size(pm_level)[1]
           h == grid_size(pm_level)[2]
       IN  \E lay \in L5Layouts(w, h) :
             IF _bfs_teleport_reachable(lay.grid, 0, 0, lay.exit_x, lay.exit_y,
                                        w, h, lay.teleport_map)
             THEN \* return: use this layout
                  /\ pm_grid' = lay.grid
                  /\ pm_extra' = [wall_positions |-> lay.wall_positions,
                                  exit_x |-> lay.exit_x, exit_y |-> lay.exit_y,
                                  teleport_map |-> lay.teleport_map]
                  /\ pm_pc' = "play"
                  /\ pm_attempt' = pm_attempt
             ELSE \* wipe and try again
                  /\ pm_grid' = <<>>
                  /\ pm_extra' = <<>>
                  /\ pm_pc' = "set_level"
                  /\ pm_attempt' = pm_attempt + 1
    /\ pm_cursor_x' = 0
    /\ pm_cursor_y' = 0
    /\ pm_history' = <<>>
    /\ UNCHANGED <<pm_prev_color, pm_level, ga_vars, cd_vars, bx_vars, gc_vars>>

\* "Fallback: if 50 attempts failed, create a trivial solvable level"
L5Fallback ==
    /\ pm_pc = "set_level"
    /\ pm_level = 4
    /\ pm_attempt = L5MaxGen
    /\ LET w == grid_size(pm_level)[1]
           h == grid_size(pm_level)[2]
       IN  /\ pm_grid' = Paint(_blank_grid(w, h, C_BLACK), {<<w - 1, h - 1>>}, C_GREEN)
           /\ pm_extra' = [wall_positions |-> {}, exit_x |-> w - 1, exit_y |-> h - 1,
                           teleport_map |-> <<>>]
    /\ pm_cursor_x' = 0
    /\ pm_cursor_y' = 0
    /\ pm_history' = <<>>
    /\ pm_pc' = "play"
    /\ UNCHANGED <<pm_prev_color, pm_level, pm_attempt, ga_vars, cd_vars, bx_vars, gc_vars>>

\* the cell _step_level_5 moves the cursor to from (x, y): the cell itself
\* when the neighbour is out of bounds or in wall_positions, the partner
\* cell when the neighbour is a teleporter
L5Move(x, y, id, wall_positions, teleport_map, w, h) ==
    LET nx == x + _get_dir(id)[1]
        ny == y + _get_dir(id)[2]
    IN  IF ~ _in_bounds(nx, ny, w, h) THEN <<x, y>>
        ELSE IF <<nx, ny>> \in wall_positions THEN <<x, y>>
        ELSE IF <<nx, ny>> \in DOMAIN teleport_map THEN teleport_map[<<nx, ny>>]
        ELSE <<nx, ny>>

\* TRUE when _step_level_5 returns before moving the cursor
L5Rejected(x, y, id, wall_positions, w, h) ==
    LET nx == x + _get_dir(id)[1]
        ny == y + _get_dir(id)[2]
    IN  ~ _in_bounds(nx, ny, w, h) \/ <<nx, ny>> \in wall_positions

\* _step_level_5 with the action id id
L5StepWith(id) ==
    /\ pm_pc = "play"
    /\ pm_level = 4
    /\ Len(pm_history) < PmMaxHistory
    /\ LET w == grid_size(pm_level)[1]
           h == grid_size(pm_level)[2]
           to == L5Move(pm_cursor_x, pm_cursor_y, id, pm_extra.wall_positions,
                        pm_extra.teleport_map, w, h)
           rejected == L5Rejected(pm_cursor_x, pm_cursor_y, id,
                                  pm_extra.wall_positions, w, h)
       IN  /\ pm_history' = _save_state
           /\ pm_cursor_x' = to[1]
           /\ pm_cursor_y' = to[2]
           /\ pm_pc' = IF ~ rejected /\ to = <<pm_extra.exit_x, pm_extra.exit_y>>
                       THEN "next_level" ELSE "play"
    /\ UNCHANGED <<pm_prev_color, pm_grid, pm_extra, pm_level, pm_attempt, ga_vars, cd_vars, bx_vars, gc_vars>>

_step_level_5 == \E id \in DirActions : L5StepWith(id)

L5Init == GaIdle /\ CdIdle /\ BxIdle /\ GcIdle /\ PmStart(4)

L5Next ==
    \/ L5GenAttempt
    \/ L5Fallback
    \/ _step_level_5
    \/ _undo

SpecL5 == L5Init /\ [][L5Next]_vars

(***************************************************************************)
(* pm07 : level 6, mirror walk                                             *)
(***************************************************************************)
\* level-6 steps are taken while the undo history is shorter than this
L6MaxHistory == 8

\* a successor in which the blocks move together or not at all
L6MoveTogether(cx, cy, mx, my, dx, dy, walls, w, h) ==
    LET mnx == cx + dx
        mny == cy + dy
        mrnx == mx - dx
        mrny == my - dy
        main_ok == _in_bounds(mnx, mny, w, h) /\ <<mnx, mny>> \notin walls
        mirror_ok == _in_bounds(mrnx, mrny, w, h) /\ <<mrnx, mrny>> \notin walls
    IN  IF main_ok /\ mirror_ok THEN <<mnx, mny, mrnx, mrny>> ELSE <<cx, cy, mx, my>>

\* the inner "for dx, dy in directions" step of _bfs_mirror_solvable and the
\* pin rule of _step_level_6: the joint position after one move (dx, dy)
L6Move(cx, cy, mx, my, dx, dy, walls, w, h) ==
    LET mnx == cx + dx
        mny == cy + dy
        mrnx == mx - dx
        mrny == my - dy
        main_ok == _in_bounds(mnx, mny, w, h) /\ <<mnx, mny>> \notin walls
        mirror_ok == _in_bounds(mrnx, mrny, w, h) /\ <<mrnx, mrny>> \notin walls
    IN  <<IF main_ok THEN mnx ELSE cx, IF main_ok THEN mny ELSE cy,
          IF mirror_ok THEN mrnx ELSE mx, IF mirror_ok THEN mrny ELSE my>>

\* a search that is content with the main block on the target
_bfs_mirror_solvable_main(w, h, walls, cx, cy, mx, my, tx, ty) ==
    LET start == <<cx, cy, mx, my>>
        goal == <<tx, ty, tx, ty>>
        \* while queue
        RECURSIVE Loop(_, _)
        Loop(frontier, visited) ==
            LET new == {L6Move(s[1], s[2], s[3], s[4], directions[k][1],
                               directions[k][2], walls, w, h) :
                           s \in frontier, k \in 1..Len(directions)} \ visited
            IN  IF frontier = {} THEN FALSE
                ELSE IF \E n \in new : <<n[1], n[2]>> = <<tx, ty>> THEN TRUE
                ELSE Loop(new, visited \cup new)
    IN  IF start = goal THEN TRUE ELSE Loop({start}, {start})

\* The FIFO queue is taken one BFS layer at a time: frontier holds the queued
\* states of one depth, in the order of which the answer does not depend.
_bfs_mirror_solvable(w, h, walls, cx, cy, mx, my, tx, ty) ==
    LET start == <<cx, cy, mx, my>>
        goal == <<tx, ty, tx, ty>>
        \* while queue
        RECURSIVE Loop(_, _)
        Loop(frontier, visited) ==
            LET new == {L6Move(s[1], s[2], s[3], s[4], directions[k][1],
                               directions[k][2], walls, w, h) :
                           s \in frontier, k \in 1..Len(directions)} \ visited
            IN  IF frontier = {} THEN FALSE
                ELSE IF goal \in new THEN TRUE
                ELSE Loop(new, visited \cup new)
    IN  IF start = goal THEN TRUE ELSE Loop({start}, {start})

\* the puzzle library with the walls of puzzle 2 left out
_LEVEL6_PUZZLES_P2_OPEN ==
    << [g1 |-> <<3, 0>>, g2 |-> <<3, 6>>, target |-> <<3, 3>>,
        walls |-> {<<2,1>>, <<4,1>>, <<2,2>>, <<4,2>>, <<2,4>>, <<4,4>>, <<2,5>>, <<4,5>>}],
       [g1 |-> <<1, 1>>, g2 |-> <<5, 5>>, target |-> <<3, 3>>,
        walls |-> {<<0,0>>, <<2,0>>, <<0,2>>, <<3,1>>, <<3,5>>, <<6,6>>, <<4,6>>,
                   <<6,4>>, <<0,4>>, <<6,2>>}],
       [g1 |-> <<2, 1>>, g2 |-> <<6, 5>>, target |-> <<4, 2>>,
        walls |-> {}],
       [g1 |-> <<1, 1>>, g2 |-> <<5, 5>>, target |-> <<4, 3>>,
        walls |-> {<<0,0>>, <<1,0>>, <<3,1>>, <<4,1>>, <<4,4>>, <<6,2>>, <<7,2>>,
                   <<6,3>>, <<6,4>>, <<7,4>>, <<1,6>>, <<2,6>>, <<0,7>>}],
       [g1 |-> <<2, 0>>, g2 |-> <<6, 5>>, target |-> <<2, 4>>,
        walls |-> {<<1,1>>, <<1,6>>, <<1,7>>, <<3,3>>, <<3,4>>, <<4,0>>, <<4,3>>,
                   <<5,1>>, <<5,4>>, <<5,7>>, <<6,0>>, <<6,2>>, <<6,4>>, <<6,6>>,
                   <<7,5>>, <<7,7>>}] >>

_LEVEL6_PUZZLES ==
    << [g1 |-> <<3, 0>>, g2 |-> <<3, 6>>, target |-> <<3, 3>>,
        walls |-> {<<2,1>>, <<4,1>>, <<2,2>>, <<4,2>>, <<2,4>>, <<4,4>>, <<2,5>>, <<4,5>>}],
       [g1 |-> <<1, 1>>, g2 |-> <<5, 5>>, target |-> <<3, 3>>,
        walls |-> {<<0,0>>, <<2,0>>, <<0,2>>, <<3,1>>, <<3,5>>, <<6,6>>, <<4,6>>,
                   <<6,4>>, <<0,4>>, <<6,2>>}],
       [g1 |-> <<2, 1>>, g2 |-> <<6, 5>>, target |-> <<4, 2>>,
        walls |-> {<<0,0>>, <<5,0>>, <<0,4>>, <<3,1>>, <<6,2>>, <<3,3>>, <<4,4>>,
                   <<5,4>>, <<0,6>>, <<3,6>>, <<5,6>>, <<6,6>>, <<0,7>>, <<6,7>>}],
       [g1 |-> <<1, 1>>, g2 |-> <<5, 5>>, target |-> <<4, 3>>,
        walls |-> {<<0,0>>, <<1,0>>, <<3,1>>, <<4,1>>, <<4,4>>, <<6,2>>, <<7,2>>,
                   <<6,3>>, <<6,4>>, <<7,4>>, <<1,6>>, <<2,6>>, <<0,7>>}],
       [g1 |-> <<2, 0>>, g2 |-> <<6, 5>>, target |-> <<2, 4>>,
        walls |-> {<<1,1>>, <<1,6>>, <<1,7>>, <<3,3>>, <<3,4>>, <<4,0>>, <<4,3>>,
                   <<5,1>>, <<5,4>>, <<5,7>>, <<6,0>>, <<6,2>>, <<6,4>>, <<6,6>>,
                   <<7,5>>, <<7,7>>}] >>

\* on_set_level for level 6 (index 5); idx is rng.randint(0, len(puzzles) - 1)
_setup_level_6 ==
    /\ pm_pc = "set_level"
    /\ pm_level = 5
    /\ \E idx \in 0..(Len(_LEVEL6_PUZZLES) - 1) :
         LET w == grid_size(pm_level)[1]
             h == grid_size(pm_level)[2]
             puzzle == _LEVEL6_PUZZLES[idx + 1]
             wall_positions == {c \in puzzle.walls : _in_bounds(c[1], c[2], w, h)}
             walled == Paint(_blank_grid(w, h, C_BLACK), wall_positions, C_DARK_GRAY)
         IN  /\ pm_grid' = Paint(walled, {puzzle.target}, C_RED)
             /\ pm_cursor_x' = puzzle.g1[1]
             /\ pm_cursor_y' = puzzle.g1[2]
             /\ pm_extra' = [wall_positions |-> wall_positions,
                             mirror_x |-> puzzle.g2[1], mirror_y |-> puzzle.g2[2],
                             target_x |-> puzzle.target[1],
                             target_y |-> puzzle.target[2]]
             \* assert self._bfs_mirror_solvable(...)
             /\ pm_pc' = IF _bfs_mirror_solvable(w, h, wall_positions,
                                                 puzzle.g1[1], puzzle.g1[2],
                                                 puzzle.g2[1], puzzle.g2[2],
                                                 puzzle.target[1], puzzle.target[2])
                         THEN "play" ELSE "assert"
    /\ pm_history' = <<>>
    /\ UNCHANGED <<pm_prev_color, pm_level, pm_attempt, ga_vars, cd_vars, bx_vars, gc_vars>>

\* a step handler whose mirror block is pinned whenever the main block is
L6StepCoupled(cx, cy, mx, my, dx, dy, walls, w, h) ==
    LET to == L6Move(cx, cy, mx, my, dx, dy, walls, w, h)
    IN  IF to[1] = cx /\ to[2] = cy THEN <<cx, cy, mx, my>> ELSE to

\* a step handler whose mirror block goes the same way as the main block
L6StepParallel(cx, cy, mx, my, dx, dy, walls, w, h) ==
    LET mnx == cx + dx
        mny == cy + dy
        main == IF _in_bounds(mnx, mny, w, h) /\ <<mnx, mny>> \notin walls
                THEN <<mnx, mny>> ELSE <<cx, cy>>
        mrnx == mx + dx
        mrny == my + dy
        mirror == IF _in_bounds(mrnx, mrny, w, h) /\ <<mrnx, mrny>> \notin walls
                  THEN <<mrnx, mrny>> ELSE <<mx, my>>
    IN  <<main[1], main[2], mirror[1], mirror[2]>>

\* the two moves of _step_level_6
L6Step(cx, cy, mx, my, dx, dy, walls, w, h) ==
    LET mnx == cx + dx
        mny == cy + dy
        main == IF _in_bounds(mnx, mny, w, h) /\ <<mnx, mny>> \notin walls
                THEN <<mnx, mny>> ELSE <<cx, cy>>
        mrnx == mx - dx
        mrny == my - dy
        mirror == IF _in_bounds(mrnx, mrny, w, h) /\ <<mrnx, mrny>> \notin walls
                  THEN <<mrnx, mrny>> ELSE <<mx, my>>
    IN  <<main[1], main[2], mirror[1], mirror[2]>>

\* _step_level_6 with the action id id
L6StepWith(id) ==
    /\ pm_pc = "play"
    /\ pm_level = 5
    /\ Len(pm_history) < L6MaxHistory
    /\ LET d == _get_dir(id)
           to == L6Step(pm_cursor_x, pm_cursor_y, pm_extra.mirror_x,
                        pm_extra.mirror_y, d[1], d[2], pm_extra.wall_positions,
                        grid_size(pm_level)[1], grid_size(pm_level)[2])
       IN  /\ pm_history' = _save_state
           /\ pm_cursor_x' = to[1]
           /\ pm_cursor_y' = to[2]
           /\ pm_extra' = [pm_extra EXCEPT !.mirror_x = to[3], !.mirror_y = to[4]]
           /\ pm_pc' = IF /\ to[1] = pm_extra.target_x /\ to[2] = pm_extra.target_y
                          /\ to[3] = pm_extra.target_x /\ to[4] = pm_extra.target_y
                       THEN "next_level" ELSE "play"
    /\ UNCHANGED <<pm_prev_color, pm_grid, pm_level, pm_attempt, ga_vars, cd_vars, bx_vars, gc_vars>>

_step_level_6 == \E id \in DirActions : L6StepWith(id)

L6Init == GaIdle /\ CdIdle /\ BxIdle /\ GcIdle /\ PmStart(5)

L6Next ==
    \/ _setup_level_6
    \/ _step_level_6
    \/ _undo

SpecL6 == L6Init /\ [][L6Next]_vars

(***************************************************************************)
(* pm07 : level 7, sokoban                                                 *)
(***************************************************************************)
\* at most L7MaxBorder border cells and L7MaxWalls interior cells become
\* walls, and steps are taken while the undo history is shorter than
\* L7MaxHistory
L7MaxBorder == 0
L7MaxWalls == 1
L7MaxHistory == 2
\* on the boards without walls steps are taken while the undo history is
\* shorter than L7PushHistory
L7PushHistory == 4

\* block_target_pairs
block_target_pairs == << <<C_RED, C_BROWN>>, <<C_BLUE, C_TEAL>> >>

\* the cells of the four border loops
L7Border(w, h) ==
    {<<x, 0>> : x \in 0..(w - 1)} \cup {<<x, h - 1>> : x \in 0..(w - 1)}
    \cup {<<0, y>> : y \in 0..(h - 1)} \cup {<<w - 1, y>> : y \in 0..(h - 1)}

\* randint(1, w - 2), randint(1, h - 2)
L7Inner(w, h) == {<<x, y>> : x \in 1..(w - 2), y \in 1..(h - 2)}

\* a function with one more pair
L7Put(f, k, v) == [p \in DOMAIN f \cup {k} |-> IF p = k THEN v ELSE f[p]]

\* the cells the target loop can end on: a free cell of the draw range, or,
\* when its 200 draws all hit used cells, the used cell drawn last
L7TargetChoices(used, w, h) ==
    {<<tx, ty>> : tx \in 2..(w - 3), ty \in 2..(h - 3)}

\* TRUE when the block of a target at (tx, ty) can go dist cells away in
\* direction d: in bounds, not used, no wall in between
L7ClearPush(tx, ty, d, dist, used, wall_positions, w, h) ==
    /\ _in_bounds(tx + d[1] * dist, ty + d[2] * dist, w, h)
    /\ <<tx + d[1] * dist, ty + d[2] * dist>> \notin used
    /\ \A step \in 1..(dist - 1) :
          /\ _in_bounds(tx + d[1] * step, ty + d[2] * step, w, h)
          /\ <<tx + d[1] * step, ty + d[2] * step>> \notin wall_positions

\* the cells the block of a target at (tx, ty) can be put on, {} standing
\* for "not placed".  The directions are tried in a shuffled order with one
\* dist drawn for each, so every clear (direction, dist) can be the first
\* that fits; when every direction has a dist that does not fit, the
\* fallback draws interior cells until one is free or 100 draws are used up.
L7BlockChoices(tx, ty, used, wall_positions, w, h) ==
    LET fits == {<<k, dist>> \in (1..Len(directions)) \X (2..4) :
                    L7ClearPush(tx, ty, directions[k], dist, used, wall_positions, w, h)}
        direct == {{<<tx + directions[f[1]][1] * f[2], ty + directions[f[1]][2] * f[2]>>} :
                      f \in fits}
        may_fail == \A k \in 1..Len(directions) : \E dist \in 2..4 : <<k, dist>> \notin fits
        fallback == {{c} : c \in L7Inner(w, h) \ used}
                    \cup (IF L7Inner(w, h) \cap used # {} THEN {{}} ELSE {})
    IN  direct \cup (IF may_fail THEN fallback ELSE {})

\* the block-target pairs from pair i on; the value is the set of the
\* <<grid, target_positions>> the loop can end with
RECURSIVE L7PlacePairs(_, _, _, _, _, _, _)
L7PlacePairs(i, grid, used, wall_positions, target_positions, w, h) ==
    IF i > Len(block_target_pairs) THEN {<<grid, target_positions>>}
    ELSE LET bc == block_target_pairs[i][1]
             tc == block_target_pairs[i][2]
         IN  UNION {
               LET with_target == Paint(grid, {t}, tc)
                   used_t == used \cup {t}
               IN  UNION {L7PlacePairs(i + 1, Paint(with_target, b, bc), used_t \cup b,
                                       wall_positions, L7Put(target_positions, t, bc), w, h) :
                             b \in L7BlockChoices(t[1], t[2], used_t, wall_positions, w, h)} :
               t \in L7TargetChoices(used, w, h)}

\* on_set_level for level 7 (index 6)
_setup_level_7 ==
    /\ pm_pc = "set_level"
    /\ pm_level = 6
    /\ LET w == grid_size(pm_level)[1]
           h == grid_size(pm_level)[2]
       IN  \E border \in {S \in SUBSET L7Border(w, h) : Cardinality(S) <= L7MaxBorder} :
           \E num_walls \in CappedRandint(6, 10, L7MaxWalls) :
           \E walled \in PlaceRetry(border, num_walls, {{c} : c \in L7Inner(w, h)}) :
             LET wall_positions == walled \ {<<1, 1>>}
                 grid == Paint(_blank_grid(w, h, C_BLACK), wall_positions, C_DARK_GRAY)
             IN  \E placed \in L7PlacePairs(1, grid, walled \cup {<<1, 1>>}, wall_positions,
                                            <<>>, w, h) :
                   /\ pm_grid' = placed[1]
                   /\ pm_extra' = [wall_positions |-> wall_positions,
                                   block_colors |-> {block_target_pairs[i][1] :
                                                        i \in 1..Len(block_target_pairs)},
                                   target_colors |-> {block_target_pairs[i][2] :
                                                         i \in 1..Len(block_target_pairs)},
                                   target_positions |-> placed[2],
                                   original_targets |-> placed[2]]
    /\ pm_cursor_x' = 1
    /\ pm_cursor_y' = 1
    /\ pm_history' = <<>>
    /\ pm_pc' = "play"
    /\ UNCHANGED <<pm_prev_color, pm_level, pm_attempt, ga_vars, cd_vars, bx_vars, gc_vars>>

\* TRUE when _step_level_7 returns before it moves anything
L7Rejected(grid, x, y, id, extra, w, h) ==
    LET dx == _get_dir(id)[1]
        dy == _get_dir(id)[2]
        nx == x + dx
        ny == y + dy
        push_x == nx + dx
        push_y == ny + dy
    IN  IF ~ _in_bounds(nx, ny, w, h) THEN TRUE
        ELSE IF <<nx, ny>> \in extra.wall_positions THEN TRUE
        ELSE IF grid[ny][nx] \in extra.block_colors
        THEN IF ~ _in_bounds(push_x, push_y, w, h) THEN TRUE
             ELSE IF <<push_x, push_y>> \in extra.wall_positions THEN TRUE
             ELSE grid[push_y][push_x] \in extra.block_colors
                  \/ grid[push_y][push_x] = C_DARK_GRAY
        ELSE ~ (grid[ny][nx] = C_BLACK \/ grid[ny][nx] \in extra.target_colors)

\* the grid after a move that is not rejected
L7Pushed(grid, x, y, id, extra) ==
    LET dx == _get_dir(id)[1]
        dy == _get_dir(id)[2]
        nx == x + dx
        ny == y + dy
    IN  IF grid[ny][nx] \in extra.block_colors
        THEN [[grid EXCEPT ![ny][nx] =
                   IF <<nx, ny>> \in DOMAIN extra.original_targets
                   THEN extra.original_targets[<<nx, ny>>] ELSE C_BLACK]
               EXCEPT ![ny + dy][nx + dx] = grid[ny][nx]]
        ELSE grid

\* "Win: every target has its matching block"
L7AllMatched(grid, original_targets) ==
    \A t \in DOMAIN original_targets : grid[t[2]][t[1]] = original_targets[t]

\* _step_level_7 with the action id id, taken while the undo history is
\* shorter than max_history
L7Step(id, max_history) ==
    /\ pm_pc = "play"
    /\ pm_level = 6
    /\ Len(pm_history) < max_history
    /\ LET w == grid_size(pm_level)[1]
           h == grid_size(pm_level)[2]
           rejected == L7Rejected(pm_grid, pm_cursor_x, pm_cursor_y, id, pm_extra, w, h)
           grid == IF rejected THEN pm_grid
                   ELSE L7Pushed(pm_grid, pm_cursor_x, pm_cursor_y, id, pm_extra)
       IN  /\ pm_history' = _save_state
           /\ pm_grid' = grid
           /\ pm_cursor_x' = IF rejected THEN pm_cursor_x ELSE pm_cursor_x + _get_dir(id)[1]
           /\ pm_cursor_y' = IF rejected THEN pm_cursor_y ELSE pm_cursor_y + _get_dir(id)[2]
           /\ pm_pc' = IF ~ rejected /\ L7AllMatched(grid, pm_extra.original_targets)
                       THEN "next_level" ELSE "play"
    /\ UNCHANGED <<pm_prev_color, pm_extra, pm_level, pm_attempt, ga_vars, cd_vars, bx_vars, gc_vars>>

L7StepWith(id) == L7Step(id, L7MaxHistory)

_step_level_7 == \E id \in DirActions : L7StepWith(id)

L7Init == GaIdle /\ CdIdle /\ BxIdle /\ GcIdle /\ PmStart(6)

L7Next ==
    \/ _setup_level_7
    \/ _step_level_7
    \/ _undo

SpecL7 == L7Init /\ [][L7Next]_vars

\* the setups whose wall draw fell on the cursor's start cell, so that the
\* board has no wall
L7OpenSetup == _setup_level_7 /\ pm_extra'.wall_positions = {}

L7OpenStep == \E id \in DirActions : L7Step(id, L7PushHistory)

L7OpenNext ==
    \/ L7OpenSetup
    \/ L7OpenStep
    \/ _undo

SpecL7Open == L7Init /\ [][L7OpenNext]_vars

(***************************************************************************)
(* pm07 : level 1, color echo                                              *)
(***************************************************************************)
\* at most L1MaxSources source cells and L1MaxTargets gray cells are placed,
\* and the sources take one of the first L1MaxColors playable colours
L1MaxSources == 1
L1MaxTargets == 2
L1MaxColors == 2

\* the colours used across the levels
PLAYABLE_COLORS == <<C_RED, C_GREEN, C_BLUE, C_YELLOW, C_MAGENTA, C_ORANGE,
                     C_CYAN, C_BROWN, C_PINK, C_LIME, C_PURPLE, C_TEAL>>

\* self._grid[c[2]][c[1]] = colour[c] for every c of the domain of colour
PaintEach(grid, colour) ==
    [y \in DOMAIN grid |->
        [x \in DOMAIN grid[y] |->
            IF <<x, y>> \in DOMAIN colour THEN colour[<<x, y>>] ELSE grid[y][x]]]

\* on_set_level for level 1 (index 0).  The source loop paints a cell on
\* every draw that is not painted yet, so at least one; the target loop
\* places up to num_targets gray cells off the painted cells and off (0, 0)
\* and gives up after 200 draws.
_setup_level_1 ==
    /\ pm_pc = "set_level"
    /\ pm_level = 0
    /\ LET w == grid_size(pm_level)[1]
           h == grid_size(pm_level)[2]
       IN  \E num_sources \in CappedRandint(8, 12, L1MaxSources) :
           \E painted \in {S \in SUBSET AllCells(w, h) :
                              1 <= Cardinality(S) /\ Cardinality(S) <= num_sources} :
           \E colour \in [painted -> {SubSeq(PLAYABLE_COLORS, 1, 6)[i] : i \in 1..Min(6, L1MaxColors)}] :
           \E num_targets \in CappedRandint(6, 10, L1MaxTargets) :
           \E targets \in {T \in SUBSET ((AllCells(w, h) \ painted) \ {<<0, 0>>}) :
                              Cardinality(T) <= num_targets} :
             pm_grid' = Paint(PaintEach(_blank_grid(w, h, C_BLACK), colour),
                              targets, C_LIGHT_GRAY)
    /\ pm_cursor_x' = 0
    /\ pm_cursor_y' = 0
    /\ pm_prev_color' = C_BLACK
    /\ pm_extra' = <<>>
    /\ pm_history' = <<>>
    /\ pm_pc' = "play"
    /\ UNCHANGED <<pm_level, pm_attempt, ga_vars, cd_vars, bx_vars, gc_vars>>

\* _step_level_1 with the action id id
L1StepWith(id) ==
    /\ pm_pc = "play"
    /\ pm_level = 0
    /\ Len(pm_history) < PmMaxHistory
    /\ LET w == grid_size(pm_level)[1]
           h == grid_size(pm_level)[2]
           leaving_color == pm_grid[pm_cursor_y][pm_cursor_x]
           prev_color == IF leaving_color # C_LIGHT_GRAY /\ leaving_color # C_BLACK
                         THEN leaving_color ELSE pm_prev_color
           nx == Max(0, Min(w - 1, pm_cursor_x + _get_dir(id)[1]))
           ny == Max(0, Min(h - 1, pm_cursor_y + _get_dir(id)[2]))
           grid == IF pm_grid[ny][nx] = C_LIGHT_GRAY /\ prev_color # C_BLACK
                   THEN [pm_grid EXCEPT ![ny][nx] = prev_color]
                   ELSE pm_grid
       IN  /\ pm_history' = _save_state
           /\ pm_prev_color' = prev_color
           /\ pm_cursor_x' = nx
           /\ pm_cursor_y' = ny
           /\ pm_grid' = grid
           /\ pm_pc' = IF CellsOf(grid, C_LIGHT_GRAY) = {} THEN "next_level" ELSE "play"
    /\ UNCHANGED <<pm_extra, pm_level, pm_attempt, ga_vars, cd_vars, bx_vars, gc_vars>>

_step_level_1 == \E id \in DirActions : L1StepWith(id)

(***************************************************************************)
(* pm07 : the levels with Undo                                             *)
(***************************************************************************)
UndoInit ==
    GaIdle /\ CdIdle /\ BxIdle /\ GcIdle /\ \E idx \in {0, 1, 2, 3, 5, 6} : PmStart(idx)

UndoNext ==
    \/ _setup_level_1
    \/ _step_level_1
    \/ _setup_level_2
    \/ _step_level_2
    \/ _setup_level_3
    \/ _step_level_3
    \/ _setup_level_4
    \/ _step_level_4
    \/ _setup_level_6
    \/ _step_level_6
    \/ _setup_level_7
    \/ _step_level_7
    \/ _undo

SpecUndo == UndoInit /\ [][UndoNext]_vars

(***************************************************************************)
(* cd01 : connect all paths                                                *)
(***************************************************************************)
\* DIRS
DIRS == << <<0, -1>>, <<0, 1>>, <<-1, 0>>, <<1, 0>> >>

\* GameAction.ACTION5, the select action
ACTION5 == "ACTION5"

\* the (dx, dy) table of step()
CdDir(aid) ==
    IF aid = ACTION1 THEN <<0, -1>>
    ELSE IF aid = ACTION2 THEN <<0, 1>>
    ELSE IF aid = ACTION3 THEN <<-1, 0>>
    ELSE <<1, 0>>

\* the game ends lost after this many steps at the latest
CdMaxSteps == 12

\* The model's levels: boards small enough to be filled within CdMaxSteps
\* steps stand in for the 8 x 8 to 32 x 32 boards of LEVEL_CONFIGS and
\* PUZZLES.  max_steps keeps the value of the first two levels.
LEVEL_CONFIGS ==
    << [grid |-> <<3, 2>>, colors |-> 1, bridges |-> 0, max_steps |-> 150],
       [grid |-> <<3, 2>>, colors |-> 2, bridges |-> 2, max_steps |-> 400],
       [grid |-> <<3, 3>>, colors |-> 1, bridges |-> 0, max_steps |-> 400],
       [grid |-> <<3, 3>>, colors |-> 3, bridges |-> 1, max_steps |-> 300] >>

\* endpoints[cid] = <<ep1, ep2>>, in the order of the dictionary
PUZZLES ==
    << [endpoints |-> << << <<0, 0>>, <<2, 1>> >> >>,
        bridges |-> {}],
       [endpoints |-> << << <<0, 0>>, <<2, 1>> >>, << <<2, 0>>, <<0, 1>> >> >>,
        bridges |-> {<<1, 0>>, <<1, 1>>}],
       [endpoints |-> << << <<0, 0>>, <<2, 2>> >> >>,
        bridges |-> {}],
       [endpoints |-> << << <<0, 1>>, <<0, 0>> >>, << <<1, 0>>, <<2, 0>> >>,
                         << <<2, 1>>, <<2, 2>> >> >>,
        bridges |-> {<<1, 1>>}] >>

\* the fields on_set_level reads for level_index: grid_w, grid_h,
\* endpoints, bridges, max_steps
CdLevel(level_index) ==
    [grid_w |-> LEVEL_CONFIGS[level_index + 1].grid[1],
     grid_h |-> LEVEL_CONFIGS[level_index + 1].grid[2],
     endpoints |-> PUZZLES[level_index + 1].endpoints,
     bridges |-> PUZZLES[level_index + 1].bridges,
     max_steps |-> Min(LEVEL_CONFIGS[level_index + 1].max_steps, CdMaxSteps)]

\* the cells of a path
PathCells(path) == {path[i] : i \in 1..Len(path)}

\* the game fields the handlers read and write
CdState == [grid |-> cd_grid, cursor_x |-> cd_cursor_x, cursor_y |-> cd_cursor_y,
            selected_color |-> cd_selected_color, drawn_paths |-> cd_drawn_paths]

_path_set(st, color) == PathCells(st.drawn_paths[color])

\* the first colour other than exclude_color whose path holds pos, else 0
_other_occupant(st, pos, exclude_color) ==
    LET found == {cid \in DOMAIN st.drawn_paths :
                     cid # exclude_color /\ pos \in PathCells(st.drawn_paths[cid])}
    IN  IF found = {} THEN 0
        ELSE CHOOSE cid \in found : \A other \in found : cid <= other

_move_cursor(st, dx, dy, L) ==
    LET nx == st.cursor_x + dx
        ny == st.cursor_y + dy
    IN  IF 0 <= nx /\ nx < L.grid_w /\ 0 <= ny /\ ny < L.grid_h
        THEN [st EXCEPT !.cursor_x = nx, !.cursor_y = ny]
        ELSE st

\* a clear that empties every released cell, whoever else passes through it
_clear_drawn_path_blanking(st, color, L) ==
    LET ep1 == L.endpoints[color][1]
        ep2 == L.endpoints[color][2]
        old_path == st.drawn_paths[color]
        cleared == {pos \in PathCells(old_path) :
                       pos \notin {ep1, ep2} /\ st.grid[pos[2]][pos[1]] = color}
    IN  [st EXCEPT
            !.grid = [y \in DOMAIN st.grid |-> [x \in DOMAIN st.grid[y] |->
                        IF <<x, y>> \in cleared THEN 0 ELSE st.grid[y][x]]],
            !.drawn_paths[color] = <<>>]

_clear_drawn_path(st, color, L) ==
    LET ep1 == L.endpoints[color][1]
        ep2 == L.endpoints[color][2]
        old_path == st.drawn_paths[color]
        cleared == {pos \in PathCells(old_path) :
                       pos \notin {ep1, ep2} /\ st.grid[pos[2]][pos[1]] = color}
    IN  [st EXCEPT
            !.grid = [y \in DOMAIN st.grid |-> [x \in DOMAIN st.grid[y] |->
                        IF <<x, y>> \in cleared
                        THEN _other_occupant(st, <<x, y>>, color)
                        ELSE st.grid[y][x]]],
            !.drawn_paths[color] = <<>>]

\* a select that also drops the path of the colour it deselects
_handle_select_dropping(st, L) ==
    LET pos == <<st.cursor_x, st.cursor_y>>
        at == {cid \in DOMAIN L.endpoints :
                  pos \in {L.endpoints[cid][1], L.endpoints[cid][2]}}
    IN  IF st.selected_color > 0
        THEN [_clear_drawn_path(st, st.selected_color, L) EXCEPT !.selected_color = 0]
        ELSE IF at = {} THEN st
        ELSE LET cid == CHOOSE c \in at : \A other \in at : c <= other
             IN  [_clear_drawn_path(st, cid, L) EXCEPT
                     !.selected_color = cid, !.drawn_paths[cid] = <<pos>>]

_handle_select(st, L) ==
    LET pos == <<st.cursor_x, st.cursor_y>>
        at == {cid \in DOMAIN L.endpoints :
                  pos \in {L.endpoints[cid][1], L.endpoints[cid][2]}}
    IN  IF st.selected_color > 0
        THEN [st EXCEPT !.selected_color = 0]
        ELSE IF at = {} THEN st
        ELSE LET cid == CHOOSE c \in at : \A other \in at : c <= other
             IN  [_clear_drawn_path(st, cid, L) EXCEPT
                     !.selected_color = cid, !.drawn_paths[cid] = <<pos>>]

\* an undo that empties the removed cell whatever its label
_undo_last_cell_blanking(st, color, L) ==
    LET path == st.drawn_paths[color]
        removed == path[Len(path)]
        popped == [st EXCEPT !.drawn_paths[color] = SubSeq(path, 1, Len(path) - 1)]
    IN  IF path = <<>> THEN st
        ELSE IF removed \in {L.endpoints[color][1], L.endpoints[color][2]} THEN popped
        ELSE [popped EXCEPT !.grid[removed[2]][removed[1]] = 0]

_undo_last_cell(st, color, L) ==
    LET path == st.drawn_paths[color]
        removed == path[Len(path)]
        popped == [st EXCEPT !.drawn_paths[color] = SubSeq(path, 1, Len(path) - 1)]
    IN  IF path = <<>> THEN st
        ELSE IF removed \in {L.endpoints[color][1], L.endpoints[color][2]} THEN popped
        ELSE IF st.grid[removed[2]][removed[1]] = color
        THEN [popped EXCEPT !.grid[removed[2]][removed[1]] =
                                _other_occupant(popped, removed, color)]
        ELSE popped

\* an undo that leaves the cursor on the removed cell
_handle_undo_staying(st, L) ==
    IF st.selected_color <= 0 THEN st
    ELSE IF Len(st.drawn_paths[st.selected_color]) <= 1 THEN st
    ELSE _undo_last_cell(st, st.selected_color, L)

\* an undo that also leaves a path of two cells alone
_handle_undo_short(st, L) ==
    IF st.selected_color <= 0 THEN st
    ELSE IF Len(st.drawn_paths[st.selected_color]) <= 2 THEN st
    ELSE LET undone == _undo_last_cell(st, st.selected_color, L)
             path == undone.drawn_paths[st.selected_color]
         IN  [undone EXCEPT !.cursor_x = path[Len(path)][1],
                            !.cursor_y = path[Len(path)][2]]

_handle_undo(st, L) ==
    IF st.selected_color <= 0 THEN st
    ELSE IF Len(st.drawn_paths[st.selected_color]) <= 1 THEN st
    ELSE LET undone == _undo_last_cell(st, st.selected_color, L)
             path == undone.drawn_paths[st.selected_color]
         IN  IF path # <<>>
             THEN [undone EXCEPT !.cursor_x = path[Len(path)][1],
                                 !.cursor_y = path[Len(path)][2]]
             ELSE undone

\* an other_ep that is the endpoint the path started from
OtherEndpointSame(start_ep, ep1, ep2) == IF start_ep = ep1 THEN ep1 ELSE ep2

\* other_ep = ep2 if start_ep == ep1 else ep1
OtherEndpoint(start_ep, ep1, ep2) == IF start_ep = ep1 THEN ep2 ELSE ep1

\* an extend that crosses any cell held by another colour, bridge or not
_extend_path_crossing(st, dx, dy, L) ==
    LET nx == st.cursor_x + dx
        ny == st.cursor_y + dy
        color == st.selected_color
        path == st.drawn_paths[color]
        target == <<nx, ny>>
        other_ep == OtherEndpoint(path[1], L.endpoints[color][1], L.endpoints[color][2])
        appended == [st EXCEPT !.drawn_paths[color] = Append(path, target),
                               !.cursor_x = nx, !.cursor_y = ny]
    IN  IF ~ (0 <= nx /\ nx < L.grid_w /\ 0 <= ny /\ ny < L.grid_h) THEN st
        ELSE IF path = <<>> THEN st
        ELSE IF Len(path) >= 2 /\ target = path[Len(path) - 1]
        THEN [_undo_last_cell(st, color, L) EXCEPT !.cursor_x = nx, !.cursor_y = ny]
        ELSE IF target \in _path_set(st, color) THEN st
        ELSE IF target = other_ep THEN [appended EXCEPT !.selected_color = 0]
        ELSE IF st.grid[ny][nx] = 0 THEN [appended EXCEPT !.grid[ny][nx] = color]
        ELSE IF st.grid[ny][nx] # color THEN appended
        ELSE st

_extend_path(st, dx, dy, L) ==
    LET nx == st.cursor_x + dx
        ny == st.cursor_y + dy
        color == st.selected_color
        path == st.drawn_paths[color]
        target == <<nx, ny>>
        other_ep == OtherEndpoint(path[1], L.endpoints[color][1], L.endpoints[color][2])
        appended == [st EXCEPT !.drawn_paths[color] = Append(path, target),
                               !.cursor_x = nx, !.cursor_y = ny]
    IN  IF ~ (0 <= nx /\ nx < L.grid_w /\ 0 <= ny /\ ny < L.grid_h) THEN st
        ELSE IF path = <<>> THEN st
        \* step back along own path (implicit undo)
        ELSE IF Len(path) >= 2 /\ target = path[Len(path) - 1]
        THEN [_undo_last_cell(st, color, L) EXCEPT !.cursor_x = nx, !.cursor_y = ny]
        \* cannot re-enter own path
        ELSE IF target \in _path_set(st, color) THEN st
        \* reached the destination endpoint
        ELSE IF target = other_ep THEN [appended EXCEPT !.selected_color = 0]
        \* move into an empty cell
        ELSE IF st.grid[ny][nx] = 0 THEN [appended EXCEPT !.grid[ny][nx] = color]
        \* cross a bridge occupied by a different colour
        ELSE IF target \in L.bridges /\ st.grid[ny][nx] # color THEN appended
        ELSE st

\* a connectivity test that always succeeds
_path_connects_always(st, color, start, end) == TRUE

_path_connects(st, color, start, end) ==
    LET cells == _path_set(st, color) \cup {start, end}
        \* for dx, dy in DIRS, from direction k on
        RECURSIVE Dirs(_, _, _, _)
        Dirs(pos, k, queue, visited) ==
            IF k > Len(DIRS) THEN [queue |-> queue, visited |-> visited]
            ELSE LET nb == <<pos[1] + DIRS[k][1], pos[2] + DIRS[k][2]>>
                 IN  IF nb \notin visited /\ nb \in cells
                     THEN Dirs(pos, k + 1, Append(queue, nb), visited \cup {nb})
                     ELSE Dirs(pos, k + 1, queue, visited)
        \* while queue
        RECURSIVE Loop(_, _)
        Loop(queue, visited) ==
            IF queue = <<>> THEN FALSE
            ELSE IF Head(queue) = end THEN TRUE
            ELSE LET r == Dirs(Head(queue), 1, Tail(queue), visited)
                 IN  Loop(r.queue, r.visited)
    IN  Loop(<<start>>, {start})

\* a win test that asks for the connections only, not for full coverage
_check_win_connected(st, L) ==
    \A cid \in DOMAIN L.endpoints :
        _path_connects(st, cid, L.endpoints[cid][1], L.endpoints[cid][2])

_check_win(st, L) ==
    LET covered == UNION {{L.endpoints[cid][1], L.endpoints[cid][2]} :
                             cid \in DOMAIN L.endpoints}
                   \cup UNION {PathCells(st.drawn_paths[cid]) :
                                  cid \in DOMAIN st.drawn_paths}
    IN  IF Cardinality(covered) < L.grid_w * L.grid_h THEN FALSE
        ELSE \A cid \in DOMAIN L.endpoints :
                _path_connects(st, cid, L.endpoints[cid][1], L.endpoints[cid][2])

\* the levels of SpecCd, and the level of SpecCdBridge: three colours
\* around one bridge
CdLevels == {0, 1, 2}
CdBridgeLevel == 3

\* on_set_level
CdStart ==
    /\ cd_pc = "play"
    /\ cd_level \in CdLevels \cup {CdBridgeLevel}
    /\ cd_grid = [y \in 0..(CdLevel(cd_level).grid_h - 1) |->
                    [x \in 0..(CdLevel(cd_level).grid_w - 1) |->
                        LET here == {cid \in DOMAIN CdLevel(cd_level).endpoints :
                                        <<x, y>> \in {CdLevel(cd_level).endpoints[cid][1],
                                                      CdLevel(cd_level).endpoints[cid][2]}}
                        IN  IF here = {} THEN 0
                            ELSE CHOOSE cid \in here : \A other \in here : cid >= other]]
    /\ cd_selected_color = 0
    /\ cd_drawn_paths = [cid \in DOMAIN CdLevel(cd_level).endpoints |-> <<>>]
    /\ cd_cursor_x = CdLevel(cd_level).endpoints[1][1][1]
    /\ cd_cursor_y = CdLevel(cd_level).endpoints[1][1][2]
    /\ cd_step_count = 0
    /\ cd_action = "none"

\* the dispatch of step() on the action id
CdDispatch(st, aid, L) ==
    IF aid \in DirActions
    THEN IF st.selected_color > 0
         THEN _extend_path(st, CdDir(aid)[1], CdDir(aid)[2], L)
         ELSE _move_cursor(st, CdDir(aid)[1], CdDir(aid)[2], L)
    ELSE IF aid = ACTION5 THEN _handle_select(st, L)
    ELSE IF aid = ACTION7 THEN _handle_undo(st, L)
    ELSE st

\* step() with the action id aid
\* a step that tests the step limit before the win
CdStepWithLimitFirst(aid) ==
    LET L == CdLevel(cd_level)
        st == CdDispatch(CdState, aid, L)
    IN  /\ cd_pc = "play"
        /\ cd_action' = aid
        /\ cd_step_count' = cd_step_count + 1
        /\ cd_grid' = st.grid
        /\ cd_cursor_x' = st.cursor_x
        /\ cd_cursor_y' = st.cursor_y
        /\ cd_selected_color' = st.selected_color
        /\ cd_drawn_paths' = st.drawn_paths
        /\ cd_pc' = IF cd_step_count + 1 >= L.max_steps THEN "lost"
                    ELSE IF _check_win(st, L) THEN "next_level"
                    ELSE "play"
        /\ UNCHANGED <<cd_level, ga_vars, pm_vars, bx_vars, gc_vars>>

\* step()
CdStepWith(aid) ==
    LET L == CdLevel(cd_level)
        st == CdDispatch(CdState, aid, L)
    IN  /\ cd_pc = "play"
        /\ cd_action' = aid
        /\ cd_step_count' = cd_step_count + 1
        /\ cd_grid' = st.grid
        /\ cd_cursor_x' = st.cursor_x
        /\ cd_cursor_y' = st.cursor_y
        /\ cd_selected_color' = st.selected_color
        /\ cd_drawn_paths' = st.drawn_paths
        /\ cd_pc' = IF _check_win(st, L) THEN "next_level"
                    ELSE IF cd_step_count + 1 >= L.max_steps THEN "lost"
                    ELSE "play"
        /\ UNCHANGED <<cd_level, ga_vars, pm_vars, bx_vars, gc_vars>>

CdStepDirection == \E aid \in DirActions : CdStepWith(aid)
CdStepSelect == CdStepWith(ACTION5)
CdStepUndo == CdStepWith(ACTION7)

CdInit == GaIdle /\ PmIdle /\ BxIdle /\ GcIdle /\ CdStart /\ cd_level \in CdLevels

CdNext ==
    \/ CdStepDirection
    \/ CdStepSelect
    \/ CdStepUndo

SpecCd == CdInit /\ [][CdNext]_vars

CdBridgeInit ==
    GaIdle /\ PmIdle /\ BxIdle /\ GcIdle /\ CdStart /\ cd_level = CdBridgeLevel

SpecCdBridge == CdBridgeInit /\ [][CdNext]_vars

\* self._game_over: set by step() together with lose(), cleared by
\* on_set_level
_game_over == cd_pc = "lost"

\* self._full_reset_requested: False from __init__ on, and the only other
\* assignment stores False
_full_reset_requested == FALSE

\* the grid on_set_level builds for level_index
CdStartGrid(level_index) ==
    LET L == CdLevel(level_index)
    IN  [y \in 0..(L.grid_h - 1) |->
           [x \in 0..(L.grid_w - 1) |->
               LET here == {cid \in DOMAIN L.endpoints :
                               <<x, y>> \in {L.endpoints[cid][1], L.endpoints[cid][2]}}
               IN  IF here = {} THEN 0
                   ELSE CHOOSE cid \in here : \A other \in here : cid >= other]]

\* on_set_level for level_index, run by the reset named kind
CdRestart(level_index, kind) ==
    /\ cd_level' = level_index
    /\ cd_grid' = CdStartGrid(level_index)
    /\ cd_selected_color' = 0
    /\ cd_drawn_paths' = [cid \in DOMAIN CdLevel(level_index).endpoints |-> <<>>]
    /\ cd_cursor_x' = CdLevel(level_index).endpoints[1][1][1]
    /\ cd_cursor_y' = CdLevel(level_index).endpoints[1][1][2]
    /\ cd_step_count' = 0
    /\ cd_pc' = "play"
    /\ cd_action' = kind

\* handle_reset: full_reset() starts the game again from its first level,
\* level_reset() starts the current level again
handle_reset ==
    /\ cd_pc \in {"play", "lost"}
    /\ IF _game_over \/ _full_reset_requested
       THEN CdRestart(0, "full_reset")
       ELSE CdRestart(cd_level, "level_reset")
    /\ UNCHANGED <<ga_vars, pm_vars, bx_vars, gc_vars>>

CdResetNext ==
    \/ CdStepDirection
    \/ CdStepSelect
    \/ CdStepUndo
    \/ handle_reset

SpecCdReset == CdInit /\ [][CdResetNext]_vars

(***************************************************************************)
(* bx02 : sokoban with step limits and lives                               *)
(***************************************************************************)
\* a level is abandoned for the step limit after this many moves at most
BxMaxSteps == 6

\* The model's levels, row by row and character by character: boards small
\* enough to be played out within BxMaxSteps moves stand in for the 8 x 8 to
\* 24 x 24 boards of LEVEL_GRIDS.  The second one has a coin.
LEVEL_GRIDS ==
    << << <<"#", "#", "#", "#", "#">>,
          <<"#", "P", "B", "G", "#">>,
          <<"#", ".", "B", ".", "#">>,
          <<"#", ".", "G", ".", "#">>,
          <<"#", "#", "#", "#", "#">> >>,
       << <<"#", "#", "#", "#", "#", "#">>,
          <<"#", "P", "B", "C", "G", "#">>,
          <<"#", ".", ".", ".", ".", "#">>,
          <<"#", "#", "#", "#", "#", "#">> >> >>

\* max_steps of the first two levels
_LEVEL_MAX_STEPS == <<30, 60>>

_CHAR_MAP == [ch \in {"#", "P", "B", "G", "C"} |->
                 IF ch = "#" THEN "wall"
                 ELSE IF ch = "P" THEN "player"
                 ELSE IF ch = "B" THEN "box"
                 ELSE IF ch = "G" THEN "goal"
                 ELSE "coin"]

\* the positions of the sprites of _parse_grid that carry the tag key, in
\* the order of the two loops (row by row)
RECURSIVE BxSprites(_, _, _, _)
BxSprites(rows, key, y, x) ==
    IF y > Len(rows) THEN <<>>
    ELSE IF x > Len(rows[y]) THEN BxSprites(rows, key, y + 1, 1)
    ELSE IF rows[y][x] \in DOMAIN _CHAR_MAP /\ _CHAR_MAP[rows[y][x]] = key
    THEN << <<x - 1, y - 1>> >> \o BxSprites(rows, key, y, x + 1)
    ELSE BxSprites(rows, key, y, x + 1)

\* get_sprites_by_tag on the level idx, and its max_steps
BxLevel(idx) ==
    [player |-> BxSprites(LEVEL_GRIDS[idx + 1], "player", 1, 1)[1],
     boxes |-> BxSprites(LEVEL_GRIDS[idx + 1], "box", 1, 1),
     goals |-> PathCells(BxSprites(LEVEL_GRIDS[idx + 1], "goal", 1, 1)),
     walls |-> PathCells(BxSprites(LEVEL_GRIDS[idx + 1], "wall", 1, 1)),
     coins |-> PathCells(BxSprites(LEVEL_GRIDS[idx + 1], "coin", 1, 1)),
     max_steps |-> Min(_LEVEL_MAX_STEPS[idx + 1], BxMaxSteps)]

\* the index of the first sprite of sprite_list at (x, y), 0 for None
_find_at(x, y, sprite_list) ==
    LET at == {i \in 1..Len(sprite_list) : sprite_list[i] = <<x, y>>}
    IN  IF at = {} THEN 0 ELSE CHOOSE i \in at : \A j \in at : i <= j

_is_blocked(x, y, walls) == <<x, y>> \in walls

\* a win test that is content with one goal under a box
BxCheckWinSome(coins, goals, boxes) ==
    IF coins # {} THEN FALSE
    ELSE \E goal \in goals : _find_at(goal[1], goal[2], boxes) # 0

\* Bx02._check_win: every goal has a box and no coin is left
BxCheckWin(coins, goals, boxes) ==
    IF coins # {} THEN FALSE
    ELSE \A goal \in goals : _find_at(goal[1], goal[2], boxes) # 0

\* StepDisplay.tick: the new remaining and the value returned
tick(remaining) ==
    LET r == IF remaining > 0 THEN remaining - 1 ELSE remaining
    IN  [remaining |-> r, ret |-> r > 0]

\* on_set_level
BxStart ==
    /\ bx_pc = "play"
    /\ bx_level \in 0..(Len(LEVEL_GRIDS) - 1)
    /\ bx_player = BxLevel(bx_level).player
    /\ bx_boxes = BxLevel(bx_level).boxes
    /\ bx_coins = BxLevel(bx_level).coins
    /\ bx_removed_coins = {}
    /\ bx_lives = 3
    /\ bx_remaining = BxLevel(bx_level).max_steps
    /\ bx_flash_active = FALSE

\* the direction step() parses from the action id
BxDir(id) ==
    IF id = ACTION1 THEN <<0, -1>>
    ELSE IF id = ACTION2 THEN <<0, 1>>
    ELSE IF id = ACTION3 THEN <<-1, 0>>
    ELSE <<1, 0>>

\* the collision checks of step(): TRUE when it returns before moving
BxBlocked(player, boxes, id, walls) ==
    LET nx == player[1] + BxDir(id)[1]
        ny == player[2] + BxDir(id)[2]
        bx == nx + BxDir(id)[1]
        by == ny + BxDir(id)[2]
    IN  IF _is_blocked(nx, ny, walls) THEN TRUE
        ELSE IF _find_at(nx, ny, boxes) # 0
        THEN _is_blocked(bx, by, walls) \/ _find_at(bx, by, boxes) # 0
        ELSE FALSE

\* a restore that leaves the collected coins out
_restore_level_coinless(removed_coins, coins) ==
    /\ bx_player' = BxLevel(bx_level).player
    /\ bx_boxes' = BxLevel(bx_level).boxes
    /\ bx_coins' = coins
    /\ bx_removed_coins' = {}

\* _restore_level, run with the _removed_coins and _coins the move has left:
\* _init_player_pos and _init_box_positions are the positions on_set_level
\* found, every removed coin is appended to _coins again
_restore_level(removed_coins, coins) ==
    /\ bx_player' = BxLevel(bx_level).player
    /\ bx_boxes' = BxLevel(bx_level).boxes
    /\ bx_coins' = coins \cup removed_coins
    /\ bx_removed_coins' = {}

\* step() with the action id id
BxStepWith(id) ==
    LET L == BxLevel(bx_level)
        nx == bx_player[1] + BxDir(id)[1]
        ny == bx_player[2] + BxDir(id)[2]
        box == _find_at(nx, ny, bx_boxes)
        to == <<nx + BxDir(id)[1], ny + BxDir(id)[2]>>
        boxes == IF box # 0 THEN [bx_boxes EXCEPT ![box] = to] ELSE bx_boxes
        \* _collect_coin_at(bx, by)
        collected == IF box # 0 /\ to \in bx_coins /\ to \notin bx_removed_coins
                     THEN {to} ELSE {}
        coins == bx_coins \ collected
        removed_coins == bx_removed_coins \cup collected
        t == tick(bx_remaining)
    IN  /\ bx_pc = "play"
        /\ IF bx_flash_active
           THEN \* flash recovery
                /\ bx_flash_active' = FALSE
                /\ UNCHANGED <<bx_pc, bx_player, bx_boxes, bx_coins, bx_removed_coins, bx_lives,
                            bx_remaining>>
           ELSE IF BxBlocked(bx_player, bx_boxes, id, L.walls)
           THEN UNCHANGED <<bx_pc, bx_player, bx_boxes, bx_coins, bx_removed_coins, bx_lives,
                            bx_remaining, bx_flash_active>>
           ELSE IF BxCheckWin(coins, L.goals, boxes)
           THEN /\ bx_pc' = "next_level"
                /\ bx_player' = <<nx, ny>>
                /\ bx_boxes' = boxes
                /\ bx_coins' = coins
                /\ bx_removed_coins' = removed_coins
                /\ UNCHANGED <<bx_lives, bx_remaining, bx_flash_active>>
           ELSE IF t.ret
           THEN /\ bx_player' = <<nx, ny>>
                /\ bx_boxes' = boxes
                /\ bx_coins' = coins
                /\ bx_removed_coins' = removed_coins
                /\ bx_remaining' = t.remaining
                /\ UNCHANGED <<bx_pc, bx_lives, bx_flash_active>>
           ELSE IF bx_lives - 1 <= 0
           THEN /\ bx_pc' = "lost"
                /\ bx_player' = <<nx, ny>>
                /\ bx_boxes' = boxes
                /\ bx_coins' = coins
                /\ bx_removed_coins' = removed_coins
                /\ bx_remaining' = t.remaining
                /\ bx_lives' = bx_lives - 1
                /\ UNCHANGED bx_flash_active
           ELSE \* flash, _restore_level, reset of the step display
                /\ bx_lives' = bx_lives - 1
                /\ bx_flash_active' = TRUE
                /\ _restore_level(removed_coins, coins)
                /\ bx_remaining' = L.max_steps
                /\ UNCHANGED bx_pc
        /\ UNCHANGED <<bx_level, ga_vars, pm_vars, cd_vars, gc_vars>>

BxStep == \E id \in DirActions : BxStepWith(id)

BxInit == GaIdle /\ PmIdle /\ CdIdle /\ GcIdle /\ BxStart

BxNext == BxStep

SpecBx == BxInit /\ [][BxNext]_vars

(***************************************************************************)
(* The games with rejected moves, one of them running                      *)
(***************************************************************************)
MovesInit ==
    \/ CdInit
    \/ GaIdle /\ CdIdle /\ BxIdle /\ GcIdle /\ \E idx \in {3, 4, 6} : PmStart(idx)
    \/ BxInit

MovesNext ==
    \/ CdNext
    \/ _setup_level_4
    \/ _step_level_4
    \/ L5Next
    \/ L7Next
    \/ BxNext

SpecMoves == MovesInit /\ [][MovesNext]_vars


(***************************************************************************)
(* ga85 : one generation attempt click by click, then play.  Python lists  *)
(* are objects: gc_heap holds the row lists, a grid is the sequence of the *)
(* heap indices of its rows, so a write through one grid shows in every    *)
(* grid that shares the row.                                               *)
(***************************************************************************)
\* pw and ph are explored up to GcMaxSide for attempts from the solved grid
\* and up to GcMaxDim for grids with any labels; nc from 2 up to GcMaxColors
GcMaxSide == 3
GcMaxDim == 2
GcMaxColors == 3
\* longest scramble_clicks a strategy returns
GcMaxClicks == 3
\* most _activate_cell calls in one play
GcMaxPlay == 1
\* largest num handed to _strategy_random
GcMaxNum == 2
\* largest max_depth _solve_bfs is tried with
GcMaxDepth == 3

\* the target colour; LEVEL_TARGET_COLORS holds the same colour for all levels
GcTarget == LEVEL_TARGET_COLORS[1]

\* the labels of a grid handed to a click: the pool and one colour outside it
GcLabels(nc) == { COLOR_CYCLE[i] : i \in 1..(nc + 1) }

\* the grid (grid[r][c]) that the rows ids stand for
GcGrid(heap, ids) == [r \in 0..(Len(ids) - 1) |-> heap[ids[r + 1]]]

\* a copy that shares the rows of the grid
GcCopyRowsShared(heap, grid) == [heap |-> heap, g |-> grid]

\* [row[:] for row in grid], and deepcopy(self._grid): one new row per row
GcCopyRows(heap, grid) ==
    [heap |-> heap \o [i \in 1..Len(grid) |-> heap[grid[i]]],
     g |-> [i \in 1..Len(grid) |-> Len(heap) + i]]

\* [(cc, cr), (cc - 1, cr), (cc + 1, cr), (cc, cr - 1), (cc, cr + 1)]
ClickTargets(cr, cc) ==
    << <<cc, cr>>, <<cc - 1, cr>>, <<cc + 1, cr>>, <<cc, cr - 1>>, <<cc, cr + 1>> >>

\* the loop of _apply_click over the targets, writing into the rows of g
RECURSIVE GcApplyWrites(_, _, _, _, _, _)
GcApplyWrites(heap, g, targets, pw, ph, colors_pool) ==
    IF targets = <<>> THEN heap
    ELSE LET tx == Head(targets)[1]
             ty == Head(targets)[2]
         IN  IF 0 <= tx /\ tx < pw /\ 0 <= ty /\ ty < ph
             THEN GcApplyWrites(
                      [heap EXCEPT ![g[ty + 1]][tx] = NextColor(colors_pool, @)],
                      g, Tail(targets), pw, ph, colors_pool)
             ELSE GcApplyWrites(heap, g, Tail(targets), pw, ph, colors_pool)

\* _apply_click on row lists: the heap after the call and the returned grid
GcApplyClick(heap, grid, cr, cc, pw, ph, colors_pool) ==
    LET copy == GcCopyRows(heap, grid)
    IN  [heap |-> GcApplyWrites(copy.heap, copy.g, ClickTargets(cr, cc),
                                pw, ph, colors_pool),
         g |-> copy.g]

\* Ga85._cycle_color with pool = COLOR_CYCLE[:nc]
_cycle_color(pool, color) ==
    IF \E i \in 1..Len(pool) : pool[i] = color
    THEN pool[((PoolIndex(pool, color) + 1) % Len(pool)) + 1]
    ELSE pool[1]

\* the loop of _activate_cell over the targets, writing into self._grid
RECURSIVE GcActivateWrites(_, _, _, _, _, _)
GcActivateWrites(heap, g, targets, pw, ph, pool) ==
    IF targets = <<>> THEN heap
    ELSE LET tx == Head(targets)[1]
             ty == Head(targets)[2]
         IN  IF 0 <= tx /\ tx < pw /\ 0 <= ty /\ ty < ph
             THEN GcActivateWrites(
                      [heap EXCEPT ![g[ty + 1]][tx] = _cycle_color(pool, @)],
                      g, Tail(targets), pw, ph, pool)
             ELSE GcActivateWrites(heap, g, Tail(targets), pw, ph, pool)

\* Ga85._activate_cell(gx, gy): the heap and the history after the call;
\* self._grid stays the same list of rows
_activate_cell(heap, grid, history, gx, gy, pw, ph, pool) ==
    IF gx < 0 \/ gx >= pw \/ gy < 0 \/ gy >= ph
    THEN [heap |-> heap, history |-> history]
    ELSE LET copy == GcCopyRows(heap, grid)
         IN  [heap |-> GcActivateWrites(copy.heap, grid, ClickTargets(gy, gx),
                                        pw, ph, pool),
              history |-> Append(history, copy.g)]

\* sequences of exactly n elements of S
GcSeqsOf(S, n) == { s \in GcSeqs(S, n) : Len(s) = n }

\* a loop that keeps every draw
RECURSIVE GcRandomLoopKeeping(_, _, _, _)
GcRandomLoopKeeping(draws, clicks, prev, num) ==
    IF draws = <<>> \/ Len(clicks) >= num THEN clicks
    ELSE GcRandomLoopKeeping(Tail(draws), Append(clicks, Head(draws)), Head(draws), num)

\* the loop "for _ in range(num * 3)" of _strategy_random over the draws
\* (sr, sc) still to come
RECURSIVE GcRandomLoop(_, _, _, _)
GcRandomLoop(draws, clicks, prev, num) ==
    IF draws = <<>> \/ Len(clicks) >= num THEN clicks
    ELSE IF Head(draws) = prev
         THEN GcRandomLoop(Tail(draws), clicks, prev, num)
         ELSE GcRandomLoop(Tail(draws), Append(clicks, Head(draws)), Head(draws), num)

\* The attempt starts before the call of _strategy_random, or from the
\* solved grid with the clicks of any other strategy (a strategy may repeat
\* a cell: _strategy_cluster pads with unfiltered draws).  The two click functions are also tried on every grid over
\* GcLabels: _apply_click with a single click, _activate_cell with the grid
\* as self._grid.
GcStart ==
    /\ gc_pw \in 1..GcMaxSide
    /\ gc_ph \in 1..GcMaxSide
    /\ gc_nc \in 2..GcMaxColors
    /\ gc_start = [i \in 1..gc_ph |-> i]
    /\ gc_grid = gc_start
    /\ \/ /\ gc_pc = "strategy"
          /\ gc_pw <= GcMaxDim /\ gc_ph <= GcMaxDim
          /\ gc_heap = [i \in 1..gc_ph |-> [x \in 0..(gc_pw - 1) |-> GcTarget]]
          /\ gc_todo = <<>>
       \/ /\ gc_pc = "scramble"
          /\ gc_heap = [i \in 1..gc_ph |-> [x \in 0..(gc_pw - 1) |-> GcTarget]]
          /\ gc_todo \in GcSeqs(GaCells(gc_pw, gc_ph), GcMaxClicks) \ { <<>> }
       \/ /\ gc_pc = "scramble"
          /\ gc_pw <= GcMaxDim /\ gc_ph <= GcMaxDim
          /\ gc_heap \in [1..gc_ph -> [0..(gc_pw - 1) -> GcLabels(gc_nc)]]
          /\ gc_todo \in GcSeqsOf(GaCells(gc_pw, gc_ph), 1)
       \/ /\ gc_pc = "play"
          /\ gc_pw <= GcMaxDim /\ gc_ph <= GcMaxDim
          /\ gc_heap \in [1..gc_ph -> [0..(gc_pw - 1) -> GcLabels(gc_nc)]]
          /\ gc_todo = <<>>
    /\ gc_prev = <<-1, -1>>
    /\ gc_filtered = <<>>
    /\ gc_solution = <<>>
    /\ gc_via = "none"
    /\ gc_history = <<>>
    /\ gc_click = <<-1, -1>>

\* scramble_clicks = _strategy_random(rng, pw, ph, num), the draws of
\* rng.randint being any cells
GcStrategy ==
    /\ gc_pc = "strategy"
    /\ \E num \in 1..GcMaxNum :
       \E draws \in GcSeqsOf(GaCells(gc_pw, gc_ph), num * 3) :
          gc_todo' = GcRandomLoop(draws, <<>>, <<-1, -1>>, num)
    /\ gc_pc' = "scramble"
    /\ UNCHANGED <<gc_pw, gc_ph, gc_nc, gc_heap, gc_start, gc_grid, gc_prev, gc_filtered,
                   gc_solution, gc_via, gc_history, gc_click, ga_vars, pm_vars, cd_vars,
                   bx_vars>>

\* one iteration of "for sr, sc in scramble_clicks"
GcScrambleStep ==
    /\ gc_pc = "scramble"
    /\ gc_todo # <<>>
    /\ LET sr == Head(gc_todo)[1]
           sc == Head(gc_todo)[2]
           a == GcApplyClick(gc_heap, gc_grid, sr, sc, gc_pw, gc_ph, ColorsPool(gc_nc))
       IN  IF <<sr, sc>> = gc_prev
           THEN UNCHANGED <<gc_heap, gc_grid, gc_filtered, gc_prev>>
           ELSE /\ gc_heap' = a.heap
                /\ gc_grid' = a.g
                /\ gc_filtered' = Append(gc_filtered, <<sr, sc>>)
                /\ gc_prev' = <<sr, sc>>
    /\ gc_todo' = Tail(gc_todo)
    /\ UNCHANGED <<gc_pc, gc_pw, gc_ph, gc_nc, gc_start, gc_solution, gc_via, gc_history,
                   gc_click, ga_vars, pm_vars, cd_vars, bx_vars>>

\* after the filter loop: reject, build, verify, try BFS, return
GcFinish ==
    /\ gc_pc = "scramble"
    /\ gc_todo = <<>>
    /\ LET a == GaFinish(GcGrid(gc_heap, gc_grid), gc_filtered, gc_pw, gc_ph, gc_nc,
                         GcTarget)
       IN  /\ gc_pc' = IF a.ret THEN "play" ELSE "continue"
           /\ gc_solution' = a.solution
           /\ gc_via' = a.via
    /\ UNCHANGED <<gc_pw, gc_ph, gc_nc, gc_heap, gc_start, gc_grid, gc_todo, gc_prev,
                   gc_filtered, gc_history, gc_click, ga_vars, pm_vars, cd_vars, bx_vars>>

\* step() with ACTION5 or ACTION6: _activate_cell, then the win check
GcActivate ==
    /\ gc_pc = "play"
    /\ Len(gc_history) < GcMaxPlay
    /\ \E gx \in (-1)..gc_pw, gy \in (-1)..gc_ph :
          LET a == _activate_cell(gc_heap, gc_grid, gc_history, gx, gy, gc_pw, gc_ph,
                                  ColorsPool(gc_nc))
          IN  /\ gc_heap' = a.heap
              /\ gc_history' = a.history
              /\ gc_click' = <<gx, gy>>
              /\ gc_pc' = IF _is_solved(GcGrid(a.heap, gc_grid), GcTarget, gc_pw, gc_ph)
                          THEN "next_level" ELSE "play"
    /\ UNCHANGED <<gc_pw, gc_ph, gc_nc, gc_start, gc_grid, gc_todo, gc_prev, gc_filtered,
                   gc_solution, gc_via, ga_vars, pm_vars, cd_vars, bx_vars>>

GcInit == GaIdle /\ PmIdle /\ CdIdle /\ BxIdle /\ GcStart

GcNext == GcStrategy \/ GcScrambleStep \/ GcFinish \/ GcActivate

SpecClicks == GcInit /\ [][GcNext]_vars
(***************************************************************************)
(* Claims                                                                  *)
(***************************************************************************)
GaRet == [pw |-> GaDef(ga_level).pw, ph |-> GaDef(ga_level).ph,
          nc |-> GaDef(ga_level).num_colors, target |-> GaTarget(ga_level),
          pool |-> ColorsPool(GaDef(ga_level).num_colors)]

\* C1: whatever the generator returns (reverse-scramble solution, BFS
\* solution or fallback), replaying the returned solution on the returned
\* grid gives the all-target grid.
C1_RoundTrip ==
    ga_pc = "done" =>
        _verify_solution(ga_grid, ga_solution, GaRet.target, GaRet.pw, GaRet.ph, GaRet.pool)

\* C1 witness: an attempt returned with the BFS solution in place of the
\* longer reverse-scramble solution.
C1_Witness ==
    /\ ga_pc = "done" /\ ga_via = "bfs"
    /\ Len(ga_solution) < Len(ga_scramble) * (GaRet.nc - 1)

\* The fallback instance: the solved grid with the centre (ph div 2, pw div 2)
\* and its orthogonal neighbours advanced one colour.
GaFallbackGrid ==
    [r \in 0..(GaRet.ph - 1) |->
        [c \in 0..(GaRet.pw - 1) |->
            IF \/ r = GaRet.ph \div 2 /\ c \in {GaRet.pw \div 2 - 1, GaRet.pw \div 2,
                                                 GaRet.pw \div 2 + 1}
               \/ c = GaRet.pw \div 2 /\ r \in {GaRet.ph \div 2 - 1, GaRet.ph \div 2 + 1}
            THEN NextColor(GaRet.pool, GaRet.target)
            ELSE GaRet.target]]

C2_Safe ==
    /\ ga_attempt <= MaxAttempts
    /\ ga_pc \in {"loop", "done"}
    /\ ga_pc = "loop" => ga_via \in {"none", "continue_solved", "continue_unverified"}
    /\ ga_via = "continue_solved" =>
          _is_solved(ga_grid, GaRet.target, GaRet.pw, GaRet.ph)
    /\ (ga_pc = "done" /\ ga_via # "fallback") =>
          /\ ga_attempt < MaxAttempts
          /\ ~ _is_solved(ga_grid, GaRet.target, GaRet.pw, GaRet.ph)
          /\ _verify_solution(ga_grid, ga_solution, GaRet.target,
                              GaRet.pw, GaRet.ph, GaRet.pool)
    /\ (ga_pc = "done" /\ ga_via = "fallback") =>
          /\ ga_attempt = MaxAttempts
          /\ ga_grid = GaFallbackGrid
          /\ Len(ga_solution) = GaRet.nc - 1
          /\ \A i \in 1..Len(ga_solution) :
                ga_solution[i] = <<GaRet.ph \div 2, GaRet.pw \div 2>>
    /\ ga_pc = "done" \/ ENABLED GenNext

\* Every step of the generator returns or uses up one of the attempts.
C2_Progress == ga_pc' = "done" \/ (ga_pc' = "loop" /\ ga_attempt' = ga_attempt + 1)

\* C2: the generator makes at most MaxAttempts attempts, returns at an attempt
\* whose grid is unsolved and verified, returns the centre-click fallback once
\* all attempts were rejected, and always returns: until it has returned a
\* step is enabled, and every step returns or counts one more attempt.
C2_Terminates == []C2_Safe /\ [][C2_Progress]_vars

\* C2 witness: every attempt was rejected and the fallback was returned.
C2_Witness ==
    /\ ga_pc = "done" /\ ga_via = "fallback" /\ ga_attempt = MaxAttempts
    /\ ga_solution = << <<GaRet.ph \div 2, GaRet.pw \div 2>> >>

\* The cells the cursor can come to rest on in level 3: the start cell and
\* every cell a slide of _step_level_3 ends on, from such a cell.
RECURSIVE L3Stops(_, _, _, _)
L3Stops(grid, S, w, h) ==
    LET T == S \cup {<<L3Slide(grid, p[1], p[2], _get_dir(id)[1], _get_dir(id)[2],
                              w, h, 0).cx,
                       L3Slide(grid, p[1], p[2], _get_dir(id)[1], _get_dir(id)[2],
                              w, h, 0).cy>> : p \in S, id \in DirActions}
    IN  IF T = S THEN S ELSE L3Stops(grid, T, w, h)

\* a gem of level 3 is collectible when some slide of _step_level_3 from a
\* cell the cursor can rest on turns its cell black
L3Collectible(grid, g, w, h) ==
    \E p \in L3Stops(grid, {<<0, 0>>}, w, h) : \E id \in DirActions :
        L3Slide(grid, p[1], p[2], _get_dir(id)[1], _get_dir(id)[2],
                w, h, 0).grid[g[2]][g[1]] = C_BLACK

\* The cells the cursor can walk to in level 4 by moves of _step_level_4.
RECURSIVE L4Walk(_, _, _, _)
L4Walk(S, wall_positions, w, h) ==
    LET T == S \cup {L4Move(p[1], p[2], id, wall_positions, w, h) :
                        p \in S, id \in DirActions}
    IN  IF T = S THEN S ELSE L4Walk(T, wall_positions, w, h)

PmSetupDone == pm_pc = "play" /\ pm_history = <<>>

\* C3: when the setup of level 3 or 4 has finished, every gem on the grid can
\* be collected from the start cell (0, 0) with the moves of the level's
\* step handler (slides in level 3, walking in level 4), and gems_total and
\* gems_left count exactly the gems on the grid, so a candidate that failed
\* the check is neither on the grid nor counted.
C3_GemsCollectible ==
    /\ (PmSetupDone /\ pm_level = 2) =>
          /\ \A g \in CellsOf(pm_grid, C_GREEN) :
                L3Collectible(pm_grid, g, grid_size(2)[1], grid_size(2)[2])
          /\ pm_extra.gems_total = Cardinality(CellsOf(pm_grid, C_GREEN))
          /\ pm_extra.gems_left = pm_extra.gems_total
    /\ (PmSetupDone /\ pm_level = 3) =>
          /\ CellsOf(pm_grid, C_YELLOW) \subseteq
                L4Walk({<<0, 0>>}, pm_extra.wall_positions,
                       grid_size(3)[1], grid_size(3)[2])
          /\ pm_extra.gems_total = Cardinality(CellsOf(pm_grid, C_YELLOW))
          /\ pm_extra.gems_left = pm_extra.gems_total

\* C3 witness: a level-3 board with a gem on it although some free cell
\* would have failed the slide check.
C3_Witness ==
    /\ PmSetupDone /\ pm_level = 2
    /\ pm_extra.gems_total >= 1
    /\ CellsOf(pm_grid, C_GREEN) # {}
    /\ \E c \in CellsOf(pm_grid, C_BLACK) \ {<<0, 0>>} :
          ~ _can_reach_by_slide(Paint(pm_grid, {c}, C_GREEN), c[1], c[2],
                                grid_size(2)[1], grid_size(2)[2])

\* The cells the cursor can be on in level 5 after moves of _step_level_5.
RECURSIVE L5Walk(_, _, _, _, _)
L5Walk(S, wall_positions, teleport_map, w, h) ==
    LET T == S \cup {L5Move(p[1], p[2], id, wall_positions, teleport_map, w, h) :
                        p \in S, id \in DirActions}
    IN  IF T = S THEN S ELSE L5Walk(T, wall_positions, teleport_map, w, h)

\* C4: when the setup of level 5 has finished, through an accepted layout or
\* through the fallback, the exit cell is among the cells the cursor can
\* reach from (0, 0) by the moves of _step_level_5.
C4_ExitReachable ==
    (PmSetupDone /\ pm_level = 4) =>
        <<pm_extra.exit_x, pm_extra.exit_y>> \in
            L5Walk({<<0, 0>>}, pm_extra.wall_positions, pm_extra.teleport_map,
                   grid_size(4)[1], grid_size(4)[2])

\* The accepted layouts whose exit is not a cell of wall_positions do have a
\* reachable exit.
C4_ExitReachableOffWall ==
    (PmSetupDone /\ pm_level = 4
        /\ <<pm_extra.exit_x, pm_extra.exit_y>> \notin pm_extra.wall_positions) =>
        <<pm_extra.exit_x, pm_extra.exit_y>> \in
            L5Walk({<<0, 0>>}, pm_extra.wall_positions, pm_extra.teleport_map,
                   grid_size(4)[1], grid_size(4)[2])

\* every puzzle of the library passes _bfs_mirror_solvable on the 8 x 8 board
L6LibrarySolvable ==
    \A i \in 1..Len(_LEVEL6_PUZZLES) :
        _bfs_mirror_solvable(levels[6][1], levels[6][2], _LEVEL6_PUZZLES[i].walls,
                             _LEVEL6_PUZZLES[i].g1[1], _LEVEL6_PUZZLES[i].g1[2],
                             _LEVEL6_PUZZLES[i].g2[1], _LEVEL6_PUZZLES[i].g2[2],
                             _LEVEL6_PUZZLES[i].target[1], _LEVEL6_PUZZLES[i].target[2])

\* C5: each of the five puzzles of _LEVEL6_PUZZLES passes
\* _bfs_mirror_solvable, so the setup of level 6 never ends in the assertion
\* failure: it ends in play, the only other exit being the assertion failure
\* for a puzzle that fails the check.
C5_PuzzlesSolvable ==
    /\ Len(_LEVEL6_PUZZLES) = 5
    /\ L6LibrarySolvable
    /\ pm_level = 5 => pm_pc \in {"set_level", "play", "next_level"}

\* C5 witness: the setup has finished with the last puzzle of the library.
C5_Witness ==
    /\ pm_level = 5 /\ PmSetupDone
    /\ pm_extra.wall_positions = _LEVEL6_PUZZLES[5].walls
    /\ <<pm_cursor_x, pm_cursor_y>> = _LEVEL6_PUZZLES[5].g1
    /\ <<pm_extra.mirror_x, pm_extra.mirror_y>> = _LEVEL6_PUZZLES[5].g2

\* a cell a block of level 6 cannot enter: outside the 8 x 8 board or a wall
L6Blocked(x, y, walls) ==
    \/ x \notin 0..7
    \/ y \notin 0..7
    \/ <<x, y>> \in walls

\* the pin rule: from the joint position (cx, cy, mx, my) the direction
\* (dx, dy) takes the main block to (cx + dx, cy + dy) unless that cell is
\* blocked and the mirror block to (mx - dx, my - dy) unless that cell is
\* blocked, each whatever happens to the other
L6PinRule(cx, cy, mx, my, dx, dy, walls) ==
    << IF L6Blocked(cx + dx, cy + dy, walls) THEN cx ELSE cx + dx,
       IF L6Blocked(cx + dx, cy + dy, walls) THEN cy ELSE cy + dy,
       IF L6Blocked(mx - dx, my - dy, walls) THEN mx ELSE mx - dx,
       IF L6Blocked(mx - dx, my - dy, walls) THEN my ELSE my - dy >>

\* the directions (dx, dy) of the four directional actions
L6Directions == [id \in {"ACTION1", "ACTION2", "ACTION3", "ACTION4"} |->
                    IF id = "ACTION1" THEN <<0, -1>> ELSE IF id = "ACTION2" THEN <<0, 1>>
                    ELSE IF id = "ACTION3" THEN <<-1, 0>> ELSE <<1, 0>>]

\* on the wall set of every library puzzle and on the empty wall set, for
\* every joint position off the walls and every direction, the step handler
\* and the move of the solvability search both follow the pin rule
L6PinRuleEverywhere ==
    \A walls \in {_LEVEL6_PUZZLES[i].walls : i \in 1..Len(_LEVEL6_PUZZLES)} \cup {{}} :
    \A main \in AllCells(8, 8) \ walls : \A mirror \in AllCells(8, 8) \ walls :
    \A id \in DOMAIN L6Directions :
        /\ L6Step(main[1], main[2], mirror[1], mirror[2], L6Directions[id][1],
                  L6Directions[id][2], walls, 8, 8)
             = L6PinRule(main[1], main[2], mirror[1], mirror[2],
                         L6Directions[id][1], L6Directions[id][2], walls)
        /\ L6Move(main[1], main[2], mirror[1], mirror[2], L6Directions[id][1],
                  L6Directions[id][2], walls, 8, 8)
             = L6PinRule(main[1], main[2], mirror[1], mirror[2],
                         L6Directions[id][1], L6Directions[id][2], walls)

\* neither block of level 6 is on a wall or outside the board
C6_OffWalls ==
    (pm_level = 5 /\ pm_pc \in {"play", "next_level"}) =>
        /\ ~ L6Blocked(pm_cursor_x, pm_cursor_y, pm_extra.wall_positions)
        /\ ~ L6Blocked(pm_extra.mirror_x, pm_extra.mirror_y, pm_extra.wall_positions)

\* a step of level 6 with the action id leaves the blocks where the pin rule
\* puts them and does not touch the walls
C6_StepRule ==
    \A id \in DOMAIN L6Directions :
        L6StepWith(id) =>
            /\ <<pm_cursor_x', pm_cursor_y', pm_extra'.mirror_x, pm_extra'.mirror_y>>
                  = L6PinRule(pm_cursor_x, pm_cursor_y, pm_extra.mirror_x,
                              pm_extra.mirror_y, L6Directions[id][1],
                              L6Directions[id][2], pm_extra.wall_positions)
            /\ pm_extra'.wall_positions = pm_extra.wall_positions

\* C6: in level 6 a directional action moves the main block by (dx, dy) and
\* the mirror block by (-dx, -dy); a block stays on its cell exactly when its
\* own destination is outside the grid or a wall, so one block being pinned
\* never stops the other; and neither block is ever on a wall cell or
\* outside the grid.
C6_MirrorPin == [](L6PinRuleEverywhere /\ C6_OffWalls) /\ [][C6_StepRule]_vars

\* C6 witness: the last step left the main block pinned and moved the mirror.
C6_Witness ==
    /\ pm_level = 5 /\ pm_pc = "play" /\ pm_history # <<>>
    /\ pm_history[Len(pm_history)].cursor_x = pm_cursor_x
    /\ pm_history[Len(pm_history)].cursor_y = pm_cursor_y
    /\ <<pm_history[Len(pm_history)].extra.mirror_x,
         pm_history[Len(pm_history)].extra.mirror_y>>
          # <<pm_extra.mirror_x, pm_extra.mirror_y>>

\* cells next to each other by one orthogonal step
CdAdjacent(a, b) ==
    \/ a[1] = b[1] /\ (a[2] = b[2] + 1 \/ b[2] = a[2] + 1)
    \/ a[2] = b[2] /\ (a[1] = b[1] + 1 \/ b[1] = a[1] + 1)

\* the cells of S that can be reached from the cells of R inside S
RECURSIVE CdGrow(_, _)
CdGrow(R, S) ==
    LET T == R \cup {b \in S : \E a \in R : CdAdjacent(a, b)}
    IN  IF T = R THEN R ELSE CdGrow(T, S)

CdEndpoints(cid) == CdLevel(cd_level).endpoints[cid]

\* (a) every cell of the board is an endpoint or lies on a drawn path
CdCovered ==
    \A x \in 0..(CdLevel(cd_level).grid_w - 1) :
    \A y \in 0..(CdLevel(cd_level).grid_h - 1) :
        \/ \E cid \in DOMAIN cd_drawn_paths :
              <<x, y>> \in {CdEndpoints(cid)[1], CdEndpoints(cid)[2]}
        \/ \E cid \in DOMAIN cd_drawn_paths :
              \E i \in 1..Len(cd_drawn_paths[cid]) : cd_drawn_paths[cid][i] = <<x, y>>

\* (b) for the colour cid: its endpoints are joined inside its own cells
CdConnected(cid) ==
    CdEndpoints(cid)[2] \in
        CdGrow({CdEndpoints(cid)[1]},
               PathCells(cd_drawn_paths[cid]) \cup {CdEndpoints(cid)[1], CdEndpoints(cid)[2]})

\* C7: the win check succeeds exactly when the endpoints and drawn paths
\* cover the whole grid and every colour's endpoints are connected inside
\* that colour's own cells; the level is won exactly in these states, so a
\* covered board with an unconnected colour is not won.
C7_WinIff ==
    cd_pc # "idle" =>
        /\ _check_win(CdState, CdLevel(cd_level))
              <=> (CdCovered /\ \A cid \in DOMAIN cd_drawn_paths : CdConnected(cid))
        /\ cd_pc = "next_level"
              <=> (CdCovered /\ \A cid \in DOMAIN cd_drawn_paths : CdConnected(cid))

\* C7 witness: the board is covered, a colour is not connected, and the game
\* goes on.
C7_Witness ==
    /\ cd_pc = "play" /\ cd_step_count >= 1
    /\ CdCovered
    /\ \E cid \in DOMAIN cd_drawn_paths : ~ CdConnected(cid)

\* the target cell of a directional action
CdTarget(aid) ==
    <<cd_cursor_x + (IF aid = "ACTION3" THEN -1 ELSE IF aid = "ACTION4" THEN 1 ELSE 0),
      cd_cursor_y + (IF aid = "ACTION1" THEN -1 ELSE IF aid = "ACTION2" THEN 1 ELSE 0)>>

CdInBounds(t) ==
    /\ t[1] \in 0..(CdLevel(cd_level).grid_w - 1)
    /\ t[2] \in 0..(CdLevel(cd_level).grid_h - 1)

\* the selected colour's endpoint its path did not start from
CdFarEndpoint ==
    IF cd_drawn_paths[cd_selected_color][1] = CdEndpoints(cd_selected_color)[1]
    THEN CdEndpoints(cd_selected_color)[2]
    ELSE CdEndpoints(cd_selected_color)[1]

\* nothing but the step counter and the latest action changes
CdNothingChanges ==
    UNCHANGED <<cd_grid, cd_cursor_x, cd_cursor_y, cd_selected_color, cd_drawn_paths>>

\* the paths of the colours other than cid are as before
CdOtherPathsKept(cid) ==
    /\ DOMAIN cd_drawn_paths' = DOMAIN cd_drawn_paths
    /\ \A other \in DOMAIN cd_drawn_paths \ {cid} :
          cd_drawn_paths'[other] = cd_drawn_paths[other]

\* the six rules of Extend, first match first, for the target t
C8_Rules(t) ==
    LET c == cd_selected_color
        path == cd_drawn_paths[c]
        appendsT == /\ cd_drawn_paths'[c] = Append(path, t)
                    /\ CdOtherPathsKept(c)
                    /\ <<cd_cursor_x', cd_cursor_y'>> = t
    IN  IF Len(path) >= 2 /\ t = path[Len(path) - 1]
        THEN \* (1) step back
             /\ cd_drawn_paths'[c] = SubSeq(path, 1, Len(path) - 1)
             /\ CdOtherPathsKept(c)
             /\ <<cd_cursor_x', cd_cursor_y'>> = t
             /\ cd_selected_color' = c
        ELSE IF \E i \in 1..Len(path) : path[i] = t
        THEN \* (2) own path
             CdNothingChanges
        ELSE IF t = CdFarEndpoint
        THEN \* (3) the other endpoint
             /\ appendsT
             /\ cd_selected_color' = 0
             /\ cd_grid' = cd_grid
        ELSE IF cd_grid[t[2]][t[1]] = 0
        THEN \* (4) empty cell
             /\ appendsT
             /\ cd_selected_color' = c
             /\ cd_grid' = [cd_grid EXCEPT ![t[2]][t[1]] = c]
        ELSE IF t \in CdLevel(cd_level).bridges /\ cd_grid[t[2]][t[1]] # c
        THEN \* (5) bridge under another colour
             /\ appendsT
             /\ cd_selected_color' = c
             /\ cd_grid' = cd_grid
        ELSE \* (6)
             CdNothingChanges

C8_Step ==
    (cd_pc = "play" /\ cd_selected_color > 0 /\ cd_action' \in {"ACTION1", "ACTION2", "ACTION3", "ACTION4"}
        /\ cd_step_count' = cd_step_count + 1 /\ CdInBounds(CdTarget(cd_action')))
    => C8_Rules(CdTarget(cd_action'))

\* C8: a directional step with a colour selected and the target in bounds
\* follows the first matching rule of: (1) target is the second-to-last path
\* cell: pop and move; (2) target on the own path: nothing; (3) target is the
\* other endpoint: append, move, deselect; (4) target empty: label, append,
\* move; (5) target a bridge under another colour: append and move, label
\* kept; (6) otherwise nothing.
C8_ExtendOrder == [][C8_Step]_vars

\* C8 witness: the latest step crossed a bridge that carries another colour.
C8_Witness ==
    /\ cd_action \in {"ACTION1", "ACTION2", "ACTION3", "ACTION4"} /\ cd_selected_color > 0
    /\ Len(cd_drawn_paths[cd_selected_color]) >= 2
    /\ cd_drawn_paths[cd_selected_color][Len(cd_drawn_paths[cd_selected_color])]
          = <<cd_cursor_x, cd_cursor_y>>
    /\ <<cd_cursor_x, cd_cursor_y>> \in CdLevel(cd_level).bridges
    /\ cd_grid[cd_cursor_y][cd_cursor_x] \notin {0, cd_selected_color}

\* the colours with an endpoint on the cursor cell
CdEndpointColours ==
    {cid \in DOMAIN cd_drawn_paths :
        \/ CdEndpoints(cid)[1] = <<cd_cursor_x, cd_cursor_y>>
        \/ CdEndpoints(cid)[2] = <<cd_cursor_x, cd_cursor_y>>}

C9_Step ==
    (cd_pc = "play" /\ cd_action' = "ACTION5" /\ cd_step_count' = cd_step_count + 1) =>
        IF cd_selected_color > 0
        THEN /\ cd_selected_color' = 0
             /\ UNCHANGED <<cd_grid, cd_cursor_x, cd_cursor_y, cd_drawn_paths>>
        ELSE IF CdEndpointColours = {}
        THEN CdNothingChanges
        ELSE /\ cd_selected_color' \in CdEndpointColours
             /\ cd_drawn_paths'[cd_selected_color'] = << <<cd_cursor_x, cd_cursor_y>> >>
             /\ UNCHANGED <<cd_cursor_x, cd_cursor_y>>

\* C9: Select with no colour active on an endpoint of colour c selects c and
\* makes its path that one endpoint; Select with no colour active elsewhere
\* changes nothing; Select with a colour active clears the selection and
\* leaves the paths, the grid and the cursor as they are.
C9_Select == [][C9_Step]_vars

\* C9 witness: a colour was just selected at its second endpoint.
C9_Witness ==
    /\ cd_action = "ACTION5" /\ cd_selected_color > 0
    /\ cd_drawn_paths[cd_selected_color] = << <<cd_cursor_x, cd_cursor_y>> >>
    /\ <<cd_cursor_x, cd_cursor_y>> = CdEndpoints(cd_selected_color)[2]

C10_Step ==
    (cd_pc = "play" /\ cd_action' = "ACTION7" /\ cd_step_count' = cd_step_count + 1) =>
        IF cd_selected_color > 0 /\ Len(cd_drawn_paths[cd_selected_color]) > 1
        THEN LET c == cd_selected_color
                 path == cd_drawn_paths[c]
                 r == path[Len(path)]
                 others == {o \in DOMAIN cd_drawn_paths \ {c} :
                               \E i \in 1..Len(cd_drawn_paths[o]) : cd_drawn_paths[o][i] = r}
             IN  /\ cd_drawn_paths'[c] = SubSeq(path, 1, Len(path) - 1)
                 /\ CdOtherPathsKept(c)
                 /\ <<cd_cursor_x', cd_cursor_y'>> = path[Len(path) - 1]
                 /\ cd_selected_color' = c
                 /\ \A x \in DOMAIN cd_grid[0] : \A y \in DOMAIN cd_grid :
                       <<x, y>> # r => cd_grid'[y][x] = cd_grid[y][x]
                 /\ IF cd_grid[r[2]][r[1]] = c
                    THEN IF others = {} THEN cd_grid'[r[2]][r[1]] = 0
                         ELSE cd_grid'[r[2]][r[1]] \in others
                    ELSE cd_grid'[r[2]][r[1]] = cd_grid[r[2]][r[1]]
        ELSE CdNothingChanges

\* C10: Undo with a colour selected and a path longer than one cell removes
\* the last cell of that path, moves the cursor to the new last cell, and
\* relabels the removed cell, if it carried the colour, with another colour
\* whose path holds it or with empty, leaving a cell labelled by another
\* colour as it is; no other path, cell or the selection changes.  Undo with
\* no colour selected or a path of one cell or none changes nothing.
C10_Undo == [][C10_Step]_vars

\* C10 witness: an undo has just shortened a path that is still longer than
\* one cell.
C10_Witness ==
    /\ cd_action = "ACTION7" /\ cd_selected_color > 0
    /\ Len(cd_drawn_paths[cd_selected_color]) >= 2
    /\ cd_drawn_paths[cd_selected_color][Len(cd_drawn_paths[cd_selected_color])]
          = <<cd_cursor_x, cd_cursor_y>>

\* the colours other than c whose path holds the cell p
CdOthersAt(p, c) ==
    {o \in DOMAIN cd_drawn_paths \ {c} : p \in PathCells(cd_drawn_paths[o])}

C11_Step ==
    (cd_pc = "play" /\ cd_action' = "ACTION5" /\ cd_step_count' = cd_step_count + 1
        /\ cd_selected_color = 0 /\ CdEndpointColours # {})
    => LET c == cd_selected_color'
           old == PathCells(cd_drawn_paths[c])
       IN  /\ c \in CdEndpointColours
           /\ CdOtherPathsKept(c)
           /\ \A x \in DOMAIN cd_grid[0] : \A y \in DOMAIN cd_grid :
                 IF /\ <<x, y>> \in old
                    /\ <<x, y>> \notin {CdEndpoints(c)[1], CdEndpoints(c)[2]}
                    /\ cd_grid[y][x] = c
                 THEN IF CdOthersAt(<<x, y>>, c) = {} THEN cd_grid'[y][x] = 0
                      ELSE cd_grid'[y][x] \in CdOthersAt(<<x, y>>, c)
                 ELSE cd_grid'[y][x] = cd_grid[y][x]

\* C11: selecting a colour again at one of its endpoints clears its previous
\* path: each non-endpoint cell of the old path labelled with the colour
\* becomes empty, or takes the colour of another path that holds it; the
\* endpoint cells and the cells labelled with another colour keep their
\* label, and no other colour's path changes.
C11_ClearOnReselect == [][C11_Step]_vars

\* C11 witness: no colour is selected, the cursor is on an endpoint of a
\* colour whose old path holds a cell it labels and another path crosses, and
\* the select hands that cell to the other colour.
C11_Witness ==
    /\ cd_pc = "play" /\ cd_selected_color = 0 /\ CdEndpointColours # {}
    /\ LET after == _handle_select(CdState, CdLevel(cd_level))
           c == after.selected_color
       IN  \E x \in DOMAIN cd_grid[0] : \E y \in DOMAIN cd_grid :
              /\ cd_grid[y][x] = c
              /\ <<x, y>> \in PathCells(cd_drawn_paths[c])
              /\ after.grid[y][x] \notin {0, c}
              /\ after.drawn_paths[c] = << <<cd_cursor_x, cd_cursor_y>> >>

\* C12: in every state no cell occurs twice in one colour's path, a path
\* that is not empty starts at an endpoint of its colour, consecutive path
\* cells are orthogonal neighbours, and a cell on the paths of two colours
\* is a bridge cell.
C12_PathInvariant ==
    cd_pc # "idle" =>
        /\ \A c \in DOMAIN cd_drawn_paths :
              LET path == cd_drawn_paths[c]
              IN  /\ \A i \in 1..Len(path) : \A j \in 1..Len(path) :
                        path[i] = path[j] => i = j
                  /\ path # <<>> => path[1] \in {CdEndpoints(c)[1], CdEndpoints(c)[2]}
                  /\ \A i \in 1..(Len(path) - 1) : CdAdjacent(path[i], path[i + 1])
        /\ \A c \in DOMAIN cd_drawn_paths : \A d \in DOMAIN cd_drawn_paths :
              c # d => PathCells(cd_drawn_paths[c]) \cap PathCells(cd_drawn_paths[d])
                          \subseteq CdLevel(cd_level).bridges

\* C12 witness: two paths of three cells or more share a bridge cell.
C12_Witness ==
    /\ cd_pc # "idle"
    /\ \E c \in DOMAIN cd_drawn_paths : \E d \in DOMAIN cd_drawn_paths :
          /\ c # d
          /\ Len(cd_drawn_paths[c]) >= 3 /\ Len(cd_drawn_paths[d]) >= 3
          /\ PathCells(cd_drawn_paths[c]) \cap PathCells(cd_drawn_paths[d]) # {}

\* sequences of Extend actions up to this length are tried in every state
CdSeqLen == 3

\* the handlers applied for the action ids of acts in turn; selected: a
\* colour was selected before every directional action; appended: every
\* directional action added a cell to the selected path and kept the colour
\* selected; playing: no action made the win check succeed
RECURSIVE CdRun(_, _, _)
CdRun(r, acts, L) ==
    IF acts = <<>> THEN r
    ELSE LET aid == Head(acts)
             sel == r.st.selected_color
             nxt == CdDispatch(r.st, aid, L)
         IN  CdRun([st |-> nxt,
                    selected |-> r.selected /\ (aid \in DirActions => sel > 0),
                    appended |-> r.appended /\ (aid \in DirActions =>
                                    /\ sel > 0
                                    /\ nxt.selected_color = sel
                                    /\ Len(nxt.drawn_paths[sel])
                                          = Len(r.st.drawn_paths[sel]) + 1),
                    playing |-> r.playing /\ ~ _check_win(nxt, L)],
                   Tail(acts), L)

\* the directional actions of s followed by as many undo actions
CdExtendsThenUndos(s) == s \o [i \in 1..Len(s) |-> ACTION7]

CdRunFromHere(s) ==
    CdRun([st |-> CdState, selected |-> TRUE, appended |-> TRUE, playing |-> TRUE],
          CdExtendsThenUndos(s), CdLevel(cd_level))

\* C13 as stated: any k Extend actions issued while a colour is selected,
\* followed by k Undo actions, leave the drawn paths and the grid as they
\* were before the sequence.
C13_UndoInvertsExtend ==
    (cd_pc = "play" /\ cd_selected_color > 0) =>
        \A k \in 1..CdSeqLen : \A s \in [1..k -> DirActions] :
            LET r == CdRunFromHere(s)
            IN  (r.selected /\ r.playing) =>
                    (r.st.drawn_paths = cd_drawn_paths /\ r.st.grid = cd_grid)

\* C13 amended: k Extend actions each of which adds a cell to the selected
\* path and keeps the colour selected (a move into an empty cell or across a
\* bridge under another colour), none of them winning the level, followed by
\* k Undo actions, leave the drawn paths and the grid as they were before
\* the sequence.
C13_UndoInvertsAppends ==
    (cd_pc = "play" /\ cd_selected_color > 0) =>
        \A k \in 1..CdSeqLen : \A s \in [1..k -> DirActions] :
            LET r == CdRunFromHere(s)
            IN  (r.appended /\ r.playing) =>
                    (r.st.drawn_paths = cd_drawn_paths /\ r.st.grid = cd_grid)

\* C13 witness: from here two Extend actions add two cells, one of them a
\* bridge cell labelled with another colour, the two Undo actions that
\* follow take them back, and the level is still in play.
C13_Witness ==
    /\ cd_pc = "play" /\ cd_selected_color > 0
    /\ \E s \in [1..2 -> DirActions] :
          LET mid == CdRun([st |-> CdState, selected |-> TRUE, appended |-> TRUE,
                            playing |-> TRUE], s, CdLevel(cd_level))
              r == CdRunFromHere(s)
          IN  /\ mid.appended /\ r.playing
              /\ Len(mid.st.drawn_paths[cd_selected_color])
                    = Len(cd_drawn_paths[cd_selected_color]) + 2
              /\ \E p \in PathCells(mid.st.drawn_paths[cd_selected_color])
                            \ PathCells(cd_drawn_paths[cd_selected_color]) :
                    /\ p \in CdLevel(cd_level).bridges
                    /\ cd_grid[p[2]][p[1]] \notin {0, cd_selected_color}
              /\ r.st.drawn_paths = cd_drawn_paths /\ r.st.grid = cd_grid

\* the win predicate of level 2 holds of the current grid
L2Won == L2AllOneColour(pm_grid, grid_size(pm_level)[1], grid_size(pm_level)[2])

\* C14 (for the flood walker level of pm07): no step handler runs on an
\* instance whose win predicate holds, the first generated instance and the
\* states restored by Undo included; the step that makes the win predicate
\* true leaves the instance within that step; and no step makes a true win
\* predicate false for an instance that stays in play.
C14_WinMonotone ==
    /\ []((pm_level = 1 /\ pm_pc = "play") => ~ L2Won)
    /\ [][(pm_level = 1 /\ pm_pc = "play" /\ ~ L2Won /\ L2Won') => pm_pc' = "next_level"]_vars
    /\ [][(pm_level = 1 /\ pm_pc = "play" /\ L2Won /\ pm_pc' = "play") => L2Won']_vars

\* cd01: the Extend with the action id aid is out of bounds, or targets a
\* cell of the selected colour's own path (any: own_any, or any but the
\* second-to-last: not own_any), or targets a non-bridge cell that carries
\* another colour
CdInvalidExtend(aid, own_any) ==
    LET t == CdTarget(aid)
        c == cd_selected_color
        path == cd_drawn_paths[c]
    IN  \/ ~ CdInBounds(t)
        \/ /\ t \in PathCells(path)
           /\ own_any \/ ~ (Len(path) >= 2 /\ t = path[Len(path) - 1])
        \/ /\ CdInBounds(t)
           /\ t \notin PathCells(path)
           /\ t \notin CdLevel(cd_level).bridges
           /\ cd_grid[t[2]][t[1]] \notin {0, c}

\* cd01: a rejected Extend changes neither grid, cursor, paths nor
\* selection, and does not win
CdInvalidNoOp(own_any) ==
    \A aid \in DirActions :
        (CdStepWith(aid) /\ cd_selected_color > 0 /\ CdInvalidExtend(aid, own_any))
        => (CdNothingChanges /\ cd_pc' # "next_level" /\ cd_level' = cd_level)

\* pm07 levels 4, 5 and 7: a move out of bounds or into a wall changes
\* neither grid, cursor nor gems and does not win
PmInvalidNoOp ==
    \A id \in DirActions :
        LET nx == pm_cursor_x + _get_dir(id)[1]
            ny == pm_cursor_y + _get_dir(id)[2]
        IN  (/\ L4StepWith(id) \/ L5StepWith(id) \/ L7StepWith(id)
             /\ \/ ~ (nx \in 0..(grid_size(pm_level)[1] - 1)
                      /\ ny \in 0..(grid_size(pm_level)[2] - 1))
                \/ <<nx, ny>> \in pm_extra.wall_positions)
            => (/\ UNCHANGED <<pm_grid, pm_cursor_x, pm_cursor_y, pm_extra, pm_level>>
                /\ pm_pc' = "play")

\* bx02: a move into a wall, or a push of a box into a wall or a box,
\* changes neither player, boxes nor coins, costs no step and no life, and
\* does not win
BxInvalidNoOp ==
    \A id \in DirActions :
        LET n == <<bx_player[1] + BxDir(id)[1], bx_player[2] + BxDir(id)[2]>>
            b == <<n[1] + BxDir(id)[1], n[2] + BxDir(id)[2]>>
            walls == BxLevel(bx_level).walls
        IN  (/\ BxStepWith(id)
             /\ \/ n \in walls
                \/ n \in PathCells(bx_boxes) /\ (b \in walls \/ b \in PathCells(bx_boxes)))
            => UNCHANGED <<bx_pc, bx_level, bx_player, bx_boxes, bx_coins, bx_lives,
                           bx_remaining>>

\* C15 as stated: an invalid move is a silent no-op: in cd01 an Extend out
\* of bounds, onto the colour's own path or onto a non-bridge cell held by
\* another colour, in pm07 levels 4, 5 and 7 a move out of bounds or into a
\* wall, in bx02 a move into a wall or a push of a box into a wall or a box,
\* leave grid, position, paths, boxes, gems and selection unchanged and
\* trigger no win or level change.
C15_InvalidMoveNoOp ==
    [][CdInvalidNoOp(TRUE) /\ PmInvalidNoOp /\ BxInvalidNoOp]_vars

\* C15 amended: as stated, but in cd01 the Extend onto the own path is a
\* no-op for every path cell except the second-to-last one; the Extend onto
\* the second-to-last cell is the step back, which removes the last cell.
C15_RejectedMoveNoOp ==
    [][CdInvalidNoOp(FALSE) /\ PmInvalidNoOp /\ BxInvalidNoOp]_vars

\* C15 witness: in cd01 the latest action was an Extend onto a cell of the
\* own path that is not the second-to-last one; the cursor cannot have come
\* from the cell behind it, which is off the grid, so the Extend was
\* rejected.
C15_Witness ==
    /\ cd_pc = "play" /\ cd_selected_color > 0
    /\ cd_action \in DirActions
    /\ LET path == cd_drawn_paths[cd_selected_color]
           t == CdTarget(cd_action)
           behind == <<2 * cd_cursor_x - t[1], 2 * cd_cursor_y - t[2]>>
       IN  /\ t \in PathCells(path)
           /\ Len(path) >= 2 /\ t # path[Len(path) - 1]
           /\ ~ CdInBounds(behind)

\* the cell reached from label cur by one step in the cyclic order of pool;
\* a label outside the pool counts as the first entry
GcAdvance(pool, cur) ==
    IF \E i \in 1..Len(pool) : pool[i] = cur
    THEN LET i == CHOOSE k \in 1..Len(pool) : pool[k] = cur
         IN  IF i = Len(pool) THEN pool[1] ELSE pool[i + 1]
    ELSE pool[(1 % Len(pool)) + 1]

\* (x, y) is the cell (r, c) = (y, x) itself or one of its orthogonal neighbours
GcTouched(x, y, r, c) ==
    (x - c) * (x - c) + (y - r) * (y - r) <= 1

\* C16: a call of _apply_click(grid, r, c) leaves every row list that
\* existed before the call as it was, the grid passed in included, and
\* returns a grid that differs from it exactly at (r, c) and at the
\* orthogonal neighbours inside the grid, each advanced by one step of the
\* cyclic palette order; every other cell is equal.
C16_ApplyClickFrame ==
    [][(gc_pc = "scramble" /\ gc_filtered' # gc_filtered) =>
        LET r == Head(gc_todo)[1]
            c == Head(gc_todo)[2]
            pool == ColorsPool(gc_nc)
            old == GcGrid(gc_heap, gc_grid)
            new == GcGrid(gc_heap', gc_grid')
        IN  /\ \A id \in DOMAIN gc_heap : gc_heap'[id] = gc_heap[id]
            /\ GcGrid(gc_heap', gc_grid) = old
            /\ DOMAIN new = 0..(gc_ph - 1)
            /\ \A y \in 0..(gc_ph - 1) :
                  /\ DOMAIN new[y] = 0..(gc_pw - 1)
                  /\ \A x \in 0..(gc_pw - 1) :
                        IF GcTouched(x, y, r, c)
                        THEN new[y][x] # old[y][x] /\ new[y][x] = GcAdvance(pool, old[y][x])
                        ELSE new[y][x] = old[y][x]
      ]_vars

\* C16 witness: the first click of an attempt on a 3x3 grid has been
\* applied at the centre: five cells of the returned grid differ from the
\* grid passed in, which is still on the heap, each wrapped from the last
\* pool entry to the first, and the four corners are equal.
C16_Witness ==
    /\ gc_pc = "scramble" /\ Len(gc_filtered) = 1
    /\ gc_pw = 3 /\ gc_ph = 3
    /\ LET old == GcGrid(gc_heap, gc_start)
           new == GcGrid(gc_heap, gc_grid)
           pool == ColorsPool(gc_nc)
           cells == (0..2) \X (0..2)
       IN  /\ Cardinality({ p \in cells : new[p[1]][p[2]] # old[p[1]][p[2]] }) = 5
           /\ \A p \in cells :
                 new[p[1]][p[2]] # old[p[1]][p[2]]
                 => old[p[1]][p[2]] = pool[gc_nc] /\ new[p[1]][p[2]] = pool[1]

\* C17: both click operations of ga85 treat a label outside the level
\* palette as palette index 0 before advancing, so the cell becomes
\* palette[1 mod n]: every cell a scramble click (_apply_click) or an
\* in-game click (_activate_cell, through _cycle_color) touches goes from
\* its label to the next one in that sense, and the in-game click gives the
\* grid _apply_click gives.
C17_ClickOutsidePalette ==
    /\ [][(gc_pc = "scramble" /\ gc_filtered' # gc_filtered) =>
            LET old == GcGrid(gc_heap, gc_grid)
                new == GcGrid(gc_heap', gc_grid')
            IN  \A y \in 0..(gc_ph - 1) : \A x \in 0..(gc_pw - 1) :
                   GcTouched(x, y, Head(gc_todo)[1], Head(gc_todo)[2])
                   => new[y][x] = GcAdvance(ColorsPool(gc_nc), old[y][x])
         ]_vars
    /\ [][(gc_pc = "play" /\ gc_history' # gc_history) =>
            LET old == GcGrid(gc_heap, gc_grid)
                new == GcGrid(gc_heap', gc_grid')
                gx == gc_click'[1]
                gy == gc_click'[2]
            IN  /\ \A y \in 0..(gc_ph - 1) : \A x \in 0..(gc_pw - 1) :
                      GcTouched(x, y, gy, gx)
                      => new[y][x] = GcAdvance(ColorsPool(gc_nc), old[y][x])
                /\ new = _apply_click(old, gy, gx, gc_pw, gc_ph, ColorsPool(gc_nc))
         ]_vars

\* C17 on grids whose labels are all in the palette: the in-game click and
\* _apply_click give the same grid.
C17_SameOnPalette ==
    [][(/\ gc_pc = "play" /\ gc_history' # gc_history
        /\ \A y \in 0..(gc_ph - 1) : \A x \in 0..(gc_pw - 1) :
              \E i \in 1..gc_nc : ColorsPool(gc_nc)[i] = GcGrid(gc_heap, gc_grid)[y][x])
       => GcGrid(gc_heap', gc_grid')
          = _apply_click(GcGrid(gc_heap, gc_grid), gc_click'[2], gc_click'[1],
                         gc_pw, gc_ph, ColorsPool(gc_nc))
      ]_vars

\* no two equal positions in a row
GcNoRepeat(s) == \A i \in 1..(Len(s) - 1) : s[i] # s[i + 1]

\* C18: in a generation attempt the clicks applied to the solved grid are
\* the recorded ones (a click changes the grid exactly when it is
\* recorded), and the recorded sequence never holds two equal positions in
\* a row, whatever the strategy returned; what _strategy_random returns
\* never holds two equal positions in a row.
C18_NoImmediateRepeat ==
    /\ [](GcNoRepeat(gc_filtered))
    /\ [][gc_pc = "scramble" /\ gc_todo # <<>> =>
            IF gc_grid' # gc_grid \/ gc_heap' # gc_heap
            THEN /\ gc_filtered' = Append(gc_filtered, Head(gc_todo))
                 /\ gc_filtered = <<>> \/ gc_filtered[Len(gc_filtered)] # Head(gc_todo)
            ELSE gc_filtered' = gc_filtered
         ]_vars
    /\ [][gc_pc = "strategy" =>
            /\ GcNoRepeat(gc_todo')
            /\ gc_todo' \in _strategy_random(gc_pw, gc_ph, GcMaxNum)
         ]_vars

\* C18 witness: in the middle of the filter loop, after a click was applied
\* and recorded, the next click the strategy returned is the same position.
C18_Witness ==
    /\ gc_pc = "scramble"
    /\ gc_filtered # <<>>
    /\ gc_todo # <<>>
    /\ Head(gc_todo) = gc_prev
    /\ gc_prev = gc_filtered[Len(gc_filtered)]

\* the attempt started from the all-target grid
GcFromSolved == GcGrid(gc_heap, gc_start) = SolvedGrid(GcTarget, gc_pw, gc_ph)

\* the reverse of S with each entry repeated n - 1 times
GcUndoing(S, n) ==
    [i \in 1..(Len(S) * (n - 1)) |-> S[Len(S) - ((i - 1) \div (n - 1))]]

\* C19: for the palette sizes, grid sizes and click sequences S tried,
\* replaying the reverse of S with each entry repeated n - 1 times on the
\* grid that S made of the all-target grid gives the all-target grid
\* again: for the clicks a strategy returned, and at every point of the
\* filter loop for the clicks applied so far; on the grid at the end of
\* the loop, clicking a cell n times changes nothing and two clicks give
\* the same grid in either order; the verification of an attempt never
\* rejects.  (The grid is looked at before the first in-game click.)
C19_ReverseRestores ==
    (gc_pc \in {"scramble", "continue", "play"} /\ GcFromSolved /\ gc_history = <<>>) =>
        LET pool == ColorsPool(gc_nc)
            solved == SolvedGrid(GcTarget, gc_pw, gc_ph)
            grid == GcGrid(gc_heap, gc_grid)
            cells == GaCells(gc_pw, gc_ph)
        IN  /\ gc_filtered = <<>> =>
                  ApplyClicks(ApplyClicks(solved, gc_todo, gc_pw, gc_ph, pool),
                              GcUndoing(gc_todo, gc_nc), gc_pw, gc_ph, pool) = solved
            /\ ApplyClicks(grid, GcUndoing(gc_filtered, gc_nc), gc_pw, gc_ph, pool) = solved
            /\ (gc_pc = "scramble" /\ gc_todo = <<>>) =>
                  /\ \A p \in cells :
                        ApplyClicks(grid, [i \in 1..gc_nc |-> p], gc_pw, gc_ph, pool) = grid
                  /\ \A p \in cells, q \in cells :
                        ApplyClicks(grid, <<p, q>>, gc_pw, gc_ph, pool)
                        = ApplyClicks(grid, <<q, p>>, gc_pw, gc_ph, pool)
            /\ gc_via # "continue_unverified"

\* C19 witness: an attempt with three colours and three recorded clicks
\* passed the verification with its six-click solution and returned.
C19_Witness ==
    /\ gc_pc = "play" /\ GcFromSolved
    /\ gc_nc = 3
    /\ Len(gc_filtered) = 3
    /\ gc_via = "reverse"
    /\ gc_solution = GcUndoing(gc_filtered, 3)
    /\ gc_history = <<>>

\* the clicks of s solve the grid
GcSolves(grid, s) ==
    _is_solved(ApplyClicks(grid, s, gc_pw, gc_ph, ColorsPool(gc_nc)), GcTarget, gc_pw, gc_ph)

\* C20: on the grid at the end of the filter loop, for every max_depth up
\* to GcMaxDepth, _solve_bfs returns (it ends: no grid is put on the queue
\* twice), no move list on the queue or returned is longer than max_depth,
\* and a returned move list solves the grid and no shorter sequence of
\* clicks does; the attempt returns the BFS solution only when it is
\* strictly shorter than the reverse-scramble solution, and returns the
\* reverse-scramble solution otherwise.
C20_BfsBounded ==
    /\ (gc_pc = "scramble" /\ gc_todo = <<>>) =>
         \A max_depth \in 0..GcMaxDepth :
            LET grid == GcGrid(gc_heap, gc_grid)
                b == _solve_bfs(grid, GcTarget, gc_pw, gc_ph, ColorsPool(gc_nc), max_depth)
            IN  /\ \A i \in 1..Len(b.queue) : Len(b.queue[i].moves) <= max_depth
                /\ Cardinality({ b.queue[i].g : i \in 1..Len(b.queue) }) = Len(b.queue)
                /\ b.found =>
                      /\ Len(b.moves) <= max_depth \/ b.moves = <<>>
                      /\ GcSolves(grid, b.moves)
                      /\ \A s \in GcSeqs(GaCells(gc_pw, gc_ph), Len(b.moves)) :
                            Len(s) < Len(b.moves) => ~ GcSolves(grid, s)
    /\ gc_via = "bfs" =>
         /\ Len(gc_solution) < Len(GcUndoing(gc_filtered, gc_nc))
         /\ gc_history = <<>> => GcSolves(GcGrid(gc_heap, gc_grid), gc_solution)
    /\ gc_via = "reverse" => gc_solution = GcUndoing(gc_filtered, gc_nc)

\* C20 witness: an attempt whose three recorded clicks give a grid that one
\* click solves returned that one click, found by the BFS; with max_depth 0
\* the BFS finds nothing on the same grid.
C20_Witness ==
    /\ gc_pc = "play" /\ gc_history = <<>>
    /\ gc_via = "bfs"
    /\ Len(gc_filtered) = 3
    /\ Len(gc_solution) = 1
    /\ ~ _solve_bfs(GcGrid(gc_heap, gc_grid), GcTarget, gc_pw, gc_ph,
                    ColorsPool(gc_nc), 0).found

\* C21: the grid _generate_solvable_grid returns always has a cell that is
\* not the target colour, whether an attempt was accepted or the fallback
\* was taken; an attempt whose scramble leaves the all-target grid is not
\* returned: the loop goes on with the next attempt.
C21_NeverSolved ==
    /\ [](ga_pc = "done" =>
            /\ ga_via \in {"bfs", "reverse", "fallback"}
            /\ \E r \in 0..(GaDef(ga_level).ph - 1), c \in 0..(GaDef(ga_level).pw - 1) :
                  ga_grid[r][c] # GaTarget(ga_level))
    /\ [][(ga_pc = "loop" /\
           \A r \in 0..(GaDef(ga_level).ph - 1), c \in 0..(GaDef(ga_level).pw - 1) :
              ga_grid'[r][c] = GaTarget(ga_level))
          => (ga_pc' = "loop" /\ ga_attempt' = ga_attempt + 1 /\ ga_via' = "continue_solved")
       ]_vars

\* C21 witness: every attempt of the loop ended on the all-target grid and
\* was discarded, and the fallback returned a grid that is not solved.
C21_Witness ==
    /\ ga_pc = "done" /\ ga_via = "fallback" /\ ga_attempt = MaxAttempts
    /\ \E r \in 0..(GaDef(ga_level).ph - 1), c \in 0..(GaDef(ga_level).pw - 1) :
          ga_grid[r][c] # GaTarget(ga_level)

\* C22: on the 3 x 3 board with the single colour 1 from (0,0) to (2,2) and
\* no bridges, selecting at (0,0) and extending right, right, down, down
\* leaves the path (0,0),(1,0),(2,0),(2,1),(2,2) with no colour selected,
\* and none of these five steps wins; the level is won only in states where
\* the endpoints and the drawn path cover all nine cells.
C22_CornerToCorner ==
    LET L == CdLevel(cd_level)
        s1 == CdDispatch(CdState, ACTION5, L)
        s2 == CdDispatch(s1, ACTION4, L)
        s3 == CdDispatch(s2, ACTION4, L)
        s4 == CdDispatch(s3, ACTION2, L)
        s5 == CdDispatch(s4, ACTION2, L)
    IN  /\ (cd_level = 2 /\ cd_step_count = 0) =>
              /\ s1.selected_color = 1 /\ s1.drawn_paths[1] = << <<0, 0>> >>
              /\ s4.selected_color = 1
              /\ s4.drawn_paths[1] = << <<0, 0>>, <<1, 0>>, <<2, 0>>, <<2, 1>> >>
              /\ s5.drawn_paths[1] =
                    << <<0, 0>>, <<1, 0>>, <<2, 0>>, <<2, 1>>, <<2, 2>> >>
              /\ s5.selected_color = 0
              /\ <<s5.cursor_x, s5.cursor_y>> = <<2, 2>>
              /\ \A s \in {s1, s2, s3, s4, s5} : ~ _check_win(s, L)
        /\ (cd_level = 2 /\ cd_pc = "next_level") =>
              PathCells(cd_drawn_paths[1]) \cup {<<0, 0>>, <<2, 2>>}
                 = (0..2) \X (0..2)

\* the five steps have been played and the level goes on
C22_Witness ==
    /\ cd_level = 2 /\ cd_pc = "play" /\ cd_step_count = 5
    /\ cd_selected_color = 0
    /\ cd_drawn_paths[1] = << <<0, 0>>, <<1, 0>>, <<2, 0>>, <<2, 1>>, <<2, 2>> >>

\* the grids of the scenario: a blank w x h grid with one full row or one
\* full column of wall, not on the border
WallLines(w, h) ==
    {{<<x, y>> : x \in 0..(w - 1)} : y \in 1..(h - 2)}
    \cup {{<<x, y>> : y \in 0..(h - 1)} : x \in 1..(w - 2)}

\* the free cells on the side of the wall line where cell is
HalfOf(line, cell, w, h) ==
    LET l == CHOOSE c \in line : TRUE
        is_row == \A c \in line : c[2] = l[2]
    IN  {c \in AllCells(w, h) \ line :
            IF is_row THEN (c[2] < l[2]) = (cell[2] < l[2])
            ELSE (c[1] < l[1]) = (cell[1] < l[1])}

\* teleport_map of one pair: a -> b, b -> a
PairMap(a, b) == [c \in {a, b} |-> IF c = a THEN b ELSE a]

\* a wall line of the state's grid with (0, 0) on one side, the exit on the
\* other and one teleporter of the pair on each side
L5Straddled(line) ==
    LET w == grid_size(pm_level)[1]
        h == grid_size(pm_level)[2]
        exit == <<pm_extra.exit_x, pm_extra.exit_y>>
    IN  /\ \A c \in line : pm_grid[c[2]][c[1]] = C_DARK_GRAY
        /\ <<0, 0>> \notin line /\ exit \notin line
        /\ exit \notin HalfOf(line, <<0, 0>>, w, h)
        /\ \E a \in DOMAIN pm_extra.teleport_map :
              /\ a \in HalfOf(line, <<0, 0>>, w, h)
              /\ pm_extra.teleport_map[a] \in HalfOf(line, exit, w, h)

\* C23: on the L5Dim x L5Dim grid whose only walls are a full row or a full
\* column, for every start on one side, every exit on the other and every
\* teleporter pair with one cell on each side, _bfs_teleport_reachable
\* answers True and the cells _bfs_reachable_cells returns do not include
\* the exit; the same holds for every generated teleport maze that has
\* such a wall line between (0, 0) and its exit.
C23_TeleportBridges ==
    LET w == grid_size(4)[1]
        h == grid_size(4)[2]
    IN  /\ (pm_pc = "set_level" /\ pm_level = 4 /\ pm_attempt = 0) =>
              \A line \in WallLines(w, h) :
                 LET grid == Paint(_blank_grid(w, h, C_BLACK), line, C_DARK_GRAY)
                 IN  \A start \in AllCells(w, h) \ line :
                       \A exit \in (AllCells(w, h) \ line) \ HalfOf(line, start, w, h) :
                         \A a \in HalfOf(line, start, w, h), b \in HalfOf(line, exit, w, h) :
                            /\ _bfs_teleport_reachable(grid, start[1], start[2],
                                                       exit[1], exit[2], w, h, PairMap(a, b))
                            /\ exit \notin _bfs_reachable_cells(grid, start[1], start[2], w, h)
        /\ (pm_pc = "play" /\ pm_level = 4 /\ \E line \in WallLines(w, h) : L5Straddled(line)) =>
              /\ _bfs_teleport_reachable(pm_grid, 0, 0, pm_extra.exit_x, pm_extra.exit_y,
                                         w, h, pm_extra.teleport_map)
              /\ <<pm_extra.exit_x, pm_extra.exit_y>>
                    \notin _bfs_reachable_cells(pm_grid, 0, 0, w, h)

\* a generated maze whose only walls are row 1, with the exit below it and
\* the teleporters on both sides
C23_Witness ==
    /\ pm_pc = "play" /\ pm_level = 4
    /\ pm_extra.wall_positions = {<<x, 1>> : x \in 0..(grid_size(4)[1] - 1)}
    /\ L5Straddled(pm_extra.wall_positions)
    /\ pm_attempt = 0

\* the plays of level 3: the records (grid, cursor, gems_left) that moves of
\* _step_level_3 lead to from the records of frontier; a play ends with the
\* move that brings gems_left to 0, so such records are not played on
RECURSIVE L3Plays(_, _, _, _)
L3Plays(seen, frontier, w, h) ==
    IF frontier = {} THEN seen
    ELSE LET next == {L3Slide(s.grid, s.cx, s.cy, _get_dir(id)[1], _get_dir(id)[2],
                              w, h, s.gems_left) :
                         s \in {f \in frontier : f.gems_left > 0}, id \in DirActions}
                     \ seen
         IN  L3Plays(seen \cup next, next, w, h)

\* some sequence of moves of _step_level_3 from the start cell ends with
\* gems_left <= 0, which is when the handler calls next_level
L3Winnable(grid, gems_left, w, h) ==
    LET start == [grid |-> grid, cx |-> 0, cy |-> 0, gems_left |-> gems_left]
    IN  \/ \E s \in L3Plays({start}, {start}, w, h) :
              s.gems_left <= 0 /\ CellsOf(s.grid, C_GREEN) = {}
        \/ /\ gems_left <= 0
           /\ \E id \in DirActions :
                 L3Slide(grid, 0, 0, _get_dir(id)[1], _get_dir(id)[2],
                         w, h, gems_left).gems_left <= 0

\* C24: every board _setup_level_3 produces can be won in one play: some
\* finite sequence of slides of _step_level_3 from (0, 0) picks up every
\* gem on the board, each slide starting where the one before ended, and
\* brings gems_left to 0.
C24_IceSlideWinnable ==
    (PmSetupDone /\ pm_level = 2) =>
        L3Winnable(pm_grid, pm_extra.gems_left, grid_size(2)[1], grid_size(2)[2])

\* a board with two gems has been won by picking them up on two slides,
\* the second starting where the first ended
C24_Witness ==
    /\ pm_pc = "next_level" /\ pm_level = 2
    /\ pm_extra.gems_total = 2 /\ pm_extra.gems_left = 0
    /\ Len(pm_history) = 2
    /\ Cardinality(CellsOf(pm_history[2].grid, C_GREEN)) = 1
    /\ <<pm_history[2].cursor_x, pm_history[2].cursor_y>> # <<0, 0>>

\* the successful non-winning moves of the current attempt: each one takes
\* one unit off the step display, which set_limit and reset fill up
BxUsed == BxLevel(bx_level).max_steps - bx_remaining

\* the step is a successful non-winning move that costs no life
BxPlainMove ==
    /\ ~ bx_flash_active /\ bx_player' # bx_player
    /\ bx_pc' = "play" /\ bx_lives' = bx_lives

\* the step costs a life
BxLifeLost == bx_lives' # bx_lives

\* what the moves do apart from the count at which a life is lost: a life
\* is lost one at a time by a move, with a reset of player, boxes, coins and
\* step display and a flash, or, for the last life, with lose(); the step
\* display changes only with a move; lives stay within 0..3 and the game is
\* lost exactly when they are 0
BxLivesStep ==
    /\ BxLifeLost =>
          /\ bx_lives' = bx_lives - 1 /\ ~ bx_flash_active
          /\ IF bx_lives = 1
             THEN bx_pc' = "lost"
             ELSE /\ bx_pc' = "play" /\ bx_flash_active'
                  /\ bx_player' = BxLevel(bx_level).player
                  /\ bx_boxes' = BxLevel(bx_level).boxes
                  /\ bx_coins' = BxLevel(bx_level).coins
                  /\ bx_remaining' = BxLevel(bx_level).max_steps
    /\ (bx_remaining' # bx_remaining /\ ~ BxLifeLost) =>
          (BxPlainMove /\ bx_remaining' = bx_remaining - 1)
    /\ (bx_player' = bx_player /\ bx_boxes' = bx_boxes /\ ~ BxLifeLost) =>
          (bx_remaining' = bx_remaining /\ bx_pc' = bx_pc)

BxLivesRule ==
    /\ [](bx_pc \in {"play", "next_level", "lost"} =>
             /\ bx_lives \in 0..3
             /\ (bx_pc = "lost") = (bx_lives = 0))
    /\ [][BxLivesStep]_vars

\* C25: a move costs a life, and resets the level, exactly when the count of
\* successful non-winning moves of the attempt, this move included, is
\* greater than max_steps; blocked moves leave the count alone; lives are 3
\* when a level is entered, stay within 0..3, and lose() is called exactly
\* when the third life is lost.
C25_LifeOnExceeding ==
    /\ BxLivesRule
    /\ [][(BxLifeLost => BxUsed + 1 > BxLevel(bx_level).max_steps)
          /\ (BxPlainMove => BxUsed + 1 <= BxLevel(bx_level).max_steps)
       ]_vars

\* The life is lost by the move that makes the count equal to max_steps:
\* tick() answers False as soon as remaining is 0.
C25_LifeOnReaching ==
    /\ BxLivesRule
    /\ [][(BxLifeLost => BxUsed + 1 = BxLevel(bx_level).max_steps)
          /\ (BxPlainMove => BxUsed + 1 < BxLevel(bx_level).max_steps)
       ]_vars

\* every goal cell is under a box and no coin is on the level
BxSolved(coins, boxes) ==
    /\ coins = {}
    /\ BxLevel(bx_level).goals \subseteq PathCells(boxes)

BxWinStep ==
    /\ bx_pc = "play" =>
          /\ (bx_pc' = "next_level") = BxSolved(bx_coins', bx_boxes')
          /\ bx_pc' = "next_level" =>
                /\ bx_lives' = bx_lives /\ bx_remaining' = bx_remaining
                /\ ~ bx_flash_active'
                /\ bx_player' # bx_player
    /\ \A c \in bx_coins \ bx_coins' :
          /\ c \in PathCells(bx_boxes') \ PathCells(bx_boxes)
          /\ bx_player' # c
          /\ \E i \in 1..Len(bx_boxes) :
                /\ bx_boxes[i] = bx_player' /\ bx_boxes'[i] = c
                /\ \A j \in 1..Len(bx_boxes) : j # i => bx_boxes'[j] = bx_boxes[j]
    /\ (bx_player' \in bx_coins /\ ~ BxLifeLost) => bx_player' \in bx_coins'

\* C26: a step goes on to the next level exactly when, after the move, every
\* goal cell is under a box and no coin is left; a coin leaves the level
\* only in a step that pushes a box onto its cell, and stays when the player
\* steps onto it; the move that wins costs no life and leaves the step
\* display alone, also when it is made with one step remaining.
C26_WinAndCoins ==
    /\ [](/\ bx_pc = "next_level" => BxSolved(bx_coins, bx_boxes)
          /\ bx_pc = "play" => ~ BxSolved(bx_coins, bx_boxes))
    /\ [][BxWinStep]_vars

\* the coin level has been won by the move made with one step remaining
C26_Witness ==
    /\ bx_pc = "next_level" /\ bx_level = 1
    /\ bx_remaining = 1 /\ bx_lives = 3
    /\ bx_coins = {} /\ BxLevel(1).coins # {}

\* the player stands on a coin that is still there
C26_OnCoin == bx_pc = "play" /\ bx_player \in bx_coins

\* the colours whose drawn path holds the cell pos
CdColoursOn(pos) ==
    {cid \in DOMAIN cd_drawn_paths : pos \in PathCells(cd_drawn_paths[cid])}

\* C27: no bridge cell is in the drawn paths of more than two colours at
\* the same time.
C27_BridgeCarriesTwo ==
    \A b \in CdLevel(cd_level).bridges : Cardinality(CdColoursOn(b)) <= 2

\* No cell that is not a bridge is in the drawn paths of two colours, and a
\* bridge cell is in the path of every colour that crossed it.
C27_OnlyBridgesShared ==
    \A pos \in AllCells(CdLevel(cd_level).grid_w, CdLevel(cd_level).grid_h) :
        Cardinality(CdColoursOn(pos)) >= 2 => pos \in CdLevel(cd_level).bridges

\* the solutions the comments of _LEVEL6_PUZZLES give, as action ids
\* (UP = ACTION1, DOWN = ACTION2, LEFT = ACTION3, RIGHT = ACTION4)
L6Solutions ==
    << <<ACTION2, ACTION2, ACTION2>>,
       <<ACTION2, ACTION2, ACTION4, ACTION4>>,
       <<ACTION1, ACTION2, ACTION2, ACTION4, ACTION2, ACTION4>>,
       <<ACTION2, ACTION4, ACTION4, ACTION2, ACTION4>>,
       <<ACTION2, ACTION2, ACTION2, ACTION4, ACTION4, ACTION4, ACTION4, ACTION2>> >>

\* the joint positions _step_level_6 goes through when the actions ids are
\* played from the joint position pos: one entry per action
RECURSIVE L6Play(_, _, _, _, _)
L6Play(pos, ids, walls, w, h) ==
    IF ids = <<>> THEN <<>>
    ELSE LET to == L6Step(pos[1], pos[2], pos[3], pos[4], _get_dir(Head(ids))[1],
                          _get_dir(Head(ids))[2], walls, w, h)
         IN  <<to>> \o L6Play(to, Tail(ids), walls, w, h)

\* the puzzle of the library the running level was set up with
L6Puzzle ==
    CHOOSE i \in 1..Len(_LEVEL6_PUZZLES) :
        /\ pm_extra.wall_positions = _LEVEL6_PUZZLES[i].walls
        /\ <<pm_extra.target_x, pm_extra.target_y>> = _LEVEL6_PUZZLES[i].target

\* C28: for each puzzle of the library, the documented solution played
\* through _step_level_6 from the puzzle's start positions has both blocks
\* on the target after its last move and after no earlier move.
C28_DocumentedSolutions ==
    (pm_level = 5 /\ PmSetupDone) =>
        LET p == _LEVEL6_PUZZLES[L6Puzzle]
            goal == <<p.target[1], p.target[2], p.target[1], p.target[2]>>
            sol == L6Solutions[L6Puzzle]
            traj == L6Play(<<pm_cursor_x, pm_cursor_y,
                             pm_extra.mirror_x, pm_extra.mirror_y>>,
                           sol, pm_extra.wall_positions,
                           grid_size(5)[1], grid_size(5)[2])
        IN  /\ <<pm_cursor_x, pm_cursor_y>> = p.g1
            /\ <<pm_extra.mirror_x, pm_extra.mirror_y>> = p.g2
            /\ Len(L6Solutions) = Len(_LEVEL6_PUZZLES)
            /\ \A k \in 1..Len(sol) : (traj[k] = goal) = (k = Len(sol))

\* the eight moves of puzzle 4's solution have been played and the level is
\* won: the history holds the positions the solution goes through
C28_Witness ==
    /\ pm_level = 5 /\ pm_pc = "next_level"
    /\ L6Puzzle = 5 /\ Len(pm_history) = Len(L6Solutions[5])
    /\ LET p == _LEVEL6_PUZZLES[5]
           traj == L6Play(<<p.g1[1], p.g1[2], p.g2[1], p.g2[2]>>, L6Solutions[5],
                          p.walls, grid_size(5)[1], grid_size(5)[2])
       IN  /\ \A k \in 2..Len(pm_history) :
                 <<pm_history[k].cursor_x, pm_history[k].cursor_y,
                   pm_history[k].extra.mirror_x, pm_history[k].extra.mirror_y>>
                    = traj[k - 1]
           /\ <<pm_cursor_x, pm_cursor_y, pm_extra.mirror_x, pm_extra.mirror_y>>
                 = traj[Len(traj)]

\* C29: puzzles 2, 3 and 4 of the library (the third to fifth), with their
\* start positions and target on the 8 x 8 grid but no walls, cannot be
\* solved: _bfs_mirror_solvable returns False on the empty wall set, while
\* it returns True on the puzzle's own walls.
C29_WallsEssential ==
    (pm_level = 5 /\ PmSetupDone /\ L6Puzzle \in {3, 4, 5}) =>
        LET w == grid_size(5)[1]
            h == grid_size(5)[2]
        IN  /\ <<w, h>> = <<8, 8>>
            /\ ~ _bfs_mirror_solvable(w, h, {}, pm_cursor_x, pm_cursor_y,
                                      pm_extra.mirror_x, pm_extra.mirror_y,
                                      pm_extra.target_x, pm_extra.target_y)
            /\ _bfs_mirror_solvable(w, h, pm_extra.wall_positions,
                                    pm_cursor_x, pm_cursor_y,
                                    pm_extra.mirror_x, pm_extra.mirror_y,
                                    pm_extra.target_x, pm_extra.target_y)
            /\ pm_extra.wall_positions # {}

\* the setup has finished with puzzle 2, whose walls cannot be left out
C29_Witness ==
    /\ pm_level = 5 /\ PmSetupDone /\ L6Puzzle = 3
    /\ <<pm_cursor_x, pm_cursor_y>> = <<2, 1>>
    /\ <<pm_extra.mirror_x, pm_extra.mirror_y>> = <<6, 5>>
    /\ Cardinality(pm_extra.wall_positions) = 14

\* the grid on which every wall set, start pair and target is tried
L6SmallW == 3
L6SmallH == 2

\* the joint positions that sequences of moves of _step_level_6 lead to from
\* the positions of frontier, those of seen included
RECURSIVE L6Closure(_, _, _, _, _)
L6Closure(seen, frontier, walls, w, h) ==
    IF frontier = {} THEN seen
    ELSE LET next == {L6Step(s[1], s[2], s[3], s[4], _get_dir(id)[1], _get_dir(id)[2],
                             walls, w, h) : s \in frontier, id \in DirActions} \ seen
         IN  L6Closure(seen \cup next, next, walls, w, h)

\* the oracle agrees with the step handler from the joint position start:
\* it answers True exactly when some sequence of moves of _step_level_6
\* (the empty one included) has both blocks on the target, and its
\* successor is the handler's position update in every position reached
L6OracleAgrees(start, target, walls, w, h) ==
    LET reach == L6Closure({start}, {start}, walls, w, h)
    IN  /\ _bfs_mirror_solvable(w, h, walls, start[1], start[2], start[3], start[4],
                                target[1], target[2])
              = (<<target[1], target[2], target[1], target[2]>> \in reach)
        /\ \A s \in reach : \A k \in 1..Len(directions) :
              L6Move(s[1], s[2], s[3], s[4], directions[k][1], directions[k][2],
                     walls, w, h)
                 = L6Step(s[1], s[2], s[3], s[4], directions[k][1], directions[k][2],
                          walls, w, h)

\* C30: _bfs_mirror_solvable answers True exactly when some finite sequence
\* of directional actions of _step_level_6 brings both blocks onto the
\* target, and its successor under a direction is the position update of
\* _step_level_6: for every wall set, start pair and target of the
\* L6SmallW x L6SmallH grid, for the library puzzles with and without their
\* walls, and in every position reached in play.
C30_OracleIsStepSearch ==
    /\ (pm_level = 5 /\ pm_pc = "set_level") =>
          \A walls \in SUBSET AllCells(L6SmallW, L6SmallH) :
             \A c \in AllCells(L6SmallW, L6SmallH), m \in AllCells(L6SmallW, L6SmallH) :
                \A target \in AllCells(L6SmallW, L6SmallH) :
                   L6OracleAgrees(<<c[1], c[2], m[1], m[2]>>, target, walls,
                                  L6SmallW, L6SmallH)
    /\ (pm_level = 5 /\ PmSetupDone) =>
          \A walls \in {pm_extra.wall_positions, {}} :
             L6OracleAgrees(<<pm_cursor_x, pm_cursor_y,
                              pm_extra.mirror_x, pm_extra.mirror_y>>,
                            <<pm_extra.target_x, pm_extra.target_y>>, walls,
                            grid_size(5)[1], grid_size(5)[2])
    /\ (pm_level = 5 /\ pm_pc \in {"play", "next_level"}) =>
          \A k \in 1..Len(directions) :
             L6Move(pm_cursor_x, pm_cursor_y, pm_extra.mirror_x, pm_extra.mirror_y,
                    directions[k][1], directions[k][2], pm_extra.wall_positions,
                    grid_size(5)[1], grid_size(5)[2])
                = L6Step(pm_cursor_x, pm_cursor_y, pm_extra.mirror_x, pm_extra.mirror_y,
                         directions[k][1], directions[k][2], pm_extra.wall_positions,
                         grid_size(5)[1], grid_size(5)[2])

\* after the first move of puzzle 2, UP, which the mirror block could not
\* follow, the oracle still answers True from the position reached
C30_Witness ==
    /\ pm_level = 5 /\ pm_pc = "play" /\ Len(pm_history) = 1 /\ L6Puzzle = 3
    /\ <<pm_cursor_x, pm_cursor_y>> = <<2, 0>>
    /\ <<pm_extra.mirror_x, pm_extra.mirror_y>> = <<6, 5>>
    /\ _bfs_mirror_solvable(grid_size(5)[1], grid_size(5)[2], pm_extra.wall_positions,
                            pm_cursor_x, pm_cursor_y, pm_extra.mirror_x,
                            pm_extra.mirror_y, pm_extra.target_x, pm_extra.target_y)

\* the grid and wall_positions of the level name the same wall cells (the
\* exit was not painted over a bar)
L5WallsAgree ==
    \A c \in AllCells(grid_size(4)[1], grid_size(4)[2]) :
        (pm_grid[c[2]][c[1]] = C_DARK_GRAY) <=> (c \in pm_extra.wall_positions)

\* C31: in every level-5 maze that setup has accepted, for every cell the
\* cursor can stand on as start and every cell as target,
\* _bfs_teleport_reachable returns True exactly when the target is among
\* the cells the cursor can reach from the start by moves of _step_level_5.
C31_BfsIsStepReachability ==
    LET w == grid_size(4)[1]
        h == grid_size(4)[2]
    IN  (PmSetupDone /\ pm_level = 4 /\ L5WallsAgree) =>
           \A start \in L5Walk({<<0, 0>>}, pm_extra.wall_positions,
                               pm_extra.teleport_map, w, h) :
             LET reach == L5Walk({start}, pm_extra.wall_positions,
                                 pm_extra.teleport_map, w, h)
             IN  \A target \in AllCells(w, h) :
                    _bfs_teleport_reachable(pm_grid, start[1], start[2],
                                            target[1], target[2],
                                            w, h, pm_extra.teleport_map)
                    <=> target \in reach

\* What the search does guarantee: a target it reports is reachable by the
\* moves of _step_level_5.
C31_BfsSound ==
    LET w == grid_size(4)[1]
        h == grid_size(4)[2]
    IN  (PmSetupDone /\ pm_level = 4 /\ L5WallsAgree) =>
           \A start \in L5Walk({<<0, 0>>}, pm_extra.wall_positions,
                               pm_extra.teleport_map, w, h) :
             LET reach == L5Walk({start}, pm_extra.wall_positions,
                                 pm_extra.teleport_map, w, h)
             IN  \A target \in AllCells(w, h) :
                    _bfs_teleport_reachable(pm_grid, start[1], start[2],
                                            target[1], target[2],
                                            w, h, pm_extra.teleport_map)
                    => target \in reach

\* Without teleporters the search and the step rule agree.
C31_BfsExactWithoutTeleport ==
    LET w == grid_size(4)[1]
        h == grid_size(4)[2]
    IN  (PmSetupDone /\ pm_level = 4 /\ L5WallsAgree
            /\ DOMAIN pm_extra.teleport_map = {}) =>
           \A start \in L5Walk({<<0, 0>>}, pm_extra.wall_positions,
                               pm_extra.teleport_map, w, h) :
             LET reach == L5Walk({start}, pm_extra.wall_positions,
                                 pm_extra.teleport_map, w, h)
             IN  \A target \in AllCells(w, h) :
                    _bfs_teleport_reachable(pm_grid, start[1], start[2],
                                            target[1], target[2],
                                            w, h, pm_extra.teleport_map)
                    <=> target \in reach

\* a step of _step_level_2 of a level in play: the handler pushes one undo
\* snapshot, _undo pops one
L2Stepped == pm_level = 1 /\ pm_pc = "play" /\ Len(pm_history') = Len(pm_history) + 1

\* the cells whose colour a step changes
L2Changed ==
    {c \in AllCells(grid_size(1)[1], grid_size(1)[2]) :
        pm_grid'[c[2]][c[1]] # pm_grid[c[2]][c[1]]}

\* C32: in every step of _step_level_2 whose direction points off the grid
\* the cursor stays where it is and no cell changes colour; in every other
\* step exactly the cell the cursor walks onto changes colour.
C32_EdgeBumpNoOp ==
    [][L2Stepped =>
         IF <<pm_cursor_x', pm_cursor_y'>> = <<pm_cursor_x, pm_cursor_y>>
         THEN L2Changed = {}
         ELSE L2Changed = {<<pm_cursor_x', pm_cursor_y'>>}]_vars

\* What the handler does: the cursor never leaves the grid, and every step,
\* a move off the grid included, changes the colour of exactly the cell the
\* cursor is on after it.
C32_EveryStepToggles ==
    /\ []((pm_level = 1 /\ pm_pc = "play") =>
             _in_bounds(pm_cursor_x, pm_cursor_y, grid_size(1)[1], grid_size(1)[2]))
    /\ [][L2Stepped => L2Changed = {<<pm_cursor_x', pm_cursor_y'>>}]_vars

\* the target marker colour of the pair whose block colour is bc
L7MarkerOf(bc) ==
    LET i == CHOOSE k \in 1..Len(block_target_pairs) : block_target_pairs[k][1] = bc
    IN  block_target_pairs[i][2]

\* the cells of the grid that show the colour c
L7CellsOf(grid, c) ==
    {p \in AllCells(grid_size(6)[1], grid_size(6)[2]) : grid[p[2]][p[1]] = c}

\* a step of _step_level_7 that pushes a block: the cursor moves onto a
\* cell that showed a block colour
L7PushStep ==
    /\ pm_level = 6 /\ pm_pc = "play"
    /\ Len(pm_history') = Len(pm_history) + 1
    /\ <<pm_cursor_x', pm_cursor_y'>> # <<pm_cursor_x, pm_cursor_y>>
    /\ pm_grid[pm_cursor_y'][pm_cursor_x'] \in pm_extra.block_colors

\* C33: a push off a cell that held a target marker at setup leaves that
\* target's marker colour on the vacated cell, a push off any other cell
\* leaves it empty; no step changes how many cells show a block colour; and
\* when a level that started with one cell of each block colour is won,
\* every target still has one block of its colour on the grid, the one
\* standing on it.
C33_TargetRestored ==
    /\ [][L7PushStep =>
            LET c == <<pm_cursor_x', pm_cursor_y'>>
            IN  pm_grid'[c[2]][c[1]] =
                   IF c \in DOMAIN pm_extra.original_targets
                   THEN L7MarkerOf(pm_extra.original_targets[c])
                   ELSE C_BLACK]_vars
    /\ [][(pm_level = 6 /\ pm_pc = "play" /\ Len(pm_history') = Len(pm_history) + 1) =>
            \A bc \in pm_extra.block_colors :
               Cardinality(L7CellsOf(pm_grid', bc)) = Cardinality(L7CellsOf(pm_grid, bc))]_vars

\* What the handler does: the vacated target cell gets the colour stored in
\* original_targets, which is the colour of the block the target expects.
C33_VacatedShowsExpectedBlock ==
    [][L7PushStep =>
         LET c == <<pm_cursor_x', pm_cursor_y'>>
         IN  pm_grid'[c[2]][c[1]] =
                IF c \in DOMAIN pm_extra.original_targets
                THEN pm_extra.original_targets[c]
                ELSE C_BLACK]_vars

\* a block has been pushed off a target cell: the level is won although the
\* grid shows two cells of one block colour
C33_PhantomBlockWin ==
    /\ pm_level = 6 /\ pm_pc = "next_level"
    /\ \E bc \in pm_extra.block_colors : Cardinality(L7CellsOf(pm_grid, bc)) = 2
    /\ \A bc \in pm_extra.block_colors :
          Cardinality(L7CellsOf(pm_history[1].grid, bc)) = 1

\* _check_win() on the game's fields
CdWon == _check_win(CdState, CdLevel(cd_level))

\* a call of step(): the action id is recorded
CdStepped == cd_pc = "play" /\ cd_action' \in DirActions \cup {ACTION5, ACTION7}

\* a call of handle_reset
CdWasReset == cd_action' \in {"full_reset", "level_reset"} /\ cd_step_count' = 0

\* C34: every step increases step_count by one, whatever its handler did;
\* the state after a step is on its way to the next level exactly when
\* _check_win holds of it, also when step_count has reached max_steps; a
\* level in play is always below the limit and a lost game is at it, so a
\* step that does not win loses exactly when it reaches max_steps; handle_reset is a full reset after a loss (back to the
\* first level) and a level reset (same level) otherwise, and both start
\* the level afresh.
C34_StepCountAndLoss ==
    /\ [][CdStepped =>
            /\ cd_step_count' = cd_step_count + 1
            /\ cd_level' = cd_level
            /\ cd_pc' \in {"next_level", "lost", "play"}]_vars
    /\ [](CdWon <=> cd_pc = "next_level")
    /\ [](cd_pc = "play" => cd_step_count < CdLevel(cd_level).max_steps)
    /\ [](cd_pc = "lost" => cd_step_count = CdLevel(cd_level).max_steps)
    /\ [][CdWasReset =>
            /\ cd_pc = "lost" => (cd_action' = "full_reset" /\ cd_level' = 0)
            /\ cd_pc = "play" => (cd_action' = "level_reset" /\ cd_level' = cd_level)
            /\ cd_pc' = "play" /\ cd_selected_color' = 0
            /\ \A cid \in DOMAIN cd_drawn_paths' : cd_drawn_paths'[cid] = <<>>]_vars

\* the level was won by the step that brought step_count to max_steps
C34_WinAtLimit ==
    /\ cd_pc = "next_level"
    /\ cd_step_count = CdLevel(cd_level).max_steps

\* a game lost at the step limit of a later level has been reset to the
\* first level, and a level has been won there on the last allowed step
C34_Witness ==
    /\ cd_action = "full_reset"
    /\ cd_level = 0 /\ cd_pc = "play" /\ cd_step_count = 0

\* the step counter runs out with lives remaining: a move that is neither
\* blocked nor winning, made with one step left and more than one life
BxRanOut ==
    /\ bx_pc = "play" /\ ~ bx_flash_active
    /\ bx_remaining = 1 /\ bx_lives > 1
    /\ bx_pc' = "play"

\* C35: the move on which the step counter runs out with lives remaining
\* puts the player and every box back on the positions of level entry,
\* puts every coin of the level back among the collectible ones, fills the
\* step display up to max_steps, takes one life and raises the flash; the
\* step call that follows lowers the flash and changes nothing else.
C35_RestoreOnRunOut ==
    /\ [][BxRanOut =>
            /\ bx_player' = BxLevel(bx_level).player
            /\ bx_boxes' = BxLevel(bx_level).boxes
            /\ bx_coins' = BxLevel(bx_level).coins
            /\ bx_removed_coins' = {}
            /\ bx_remaining' = BxLevel(bx_level).max_steps
            /\ bx_lives' = bx_lives - 1
            /\ bx_flash_active']_vars
    /\ [][bx_flash_active =>
            /\ ~ bx_flash_active'
            /\ UNCHANGED <<bx_pc, bx_level, bx_player, bx_boxes, bx_coins,
                           bx_removed_coins, bx_lives, bx_remaining>>]_vars
    /\ [](bx_flash_active =>
            /\ bx_pc = "play" /\ bx_lives \in 1..2
            /\ bx_coins = BxLevel(bx_level).coins)

\* the last step of an attempt is about to be made with the coin collected
C35_CoinGoneAtLastStep ==
    /\ bx_pc = "play" /\ bx_level = 1 /\ bx_remaining = 1 /\ bx_lives > 1
    /\ bx_coins = {} /\ bx_removed_coins = BxLevel(1).coins

\* the flash is up on the coin level after the second lost life, with the
\* coin back in place
C35_Witness ==
    /\ bx_flash_active /\ bx_level = 1 /\ bx_lives = 1
    /\ bx_coins = BxLevel(1).coins /\ bx_coins # {}
    /\ bx_player = BxLevel(1).player /\ bx_boxes = BxLevel(1).boxes
    /\ bx_remaining = BxLevel(1).max_steps

\* the fields of the game that _save_state records and _undo writes, with
\* the history itself
PmGame == [grid |-> pm_grid, cursor_x |-> pm_cursor_x, cursor_y |-> pm_cursor_y,
           prev_color |-> pm_prev_color, extra |-> pm_extra, history |-> pm_history]

\* the game after k calls of _undo in a row
RECURSIVE UndoTimes(_, _)
UndoTimes(game, k) ==
    IF k = 0 THEN game
    ELSE IF game.history # <<>>
    THEN LET s == game.history[Len(game.history)]
         IN  UndoTimes([grid |-> s.grid, cursor_x |-> s.cursor_x, cursor_y |-> s.cursor_y,
                        prev_color |-> s.prev_color, extra |-> s.extra,
                        history |-> SubSeq(game.history, 1, Len(game.history) - 1)],
                       k - 1)
    ELSE UndoTimes(game, k - 1)

\* a directional action that does not win: the handler ran and the level is
\* still in play
PmActed == pm_pc = "play" /\ pm_pc' = "play" /\ Len(pm_history') = Len(pm_history) + 1

\* step() with ACTION7 on a history that is not empty
PmUndone == pm_pc = "play" /\ Len(pm_history') = Len(pm_history) - 1

\* C36: one Undo after a directional action that does not win gives back
\* the game as it was before the action (grid, cursor, prev_color and
\* _extra with the mirror position and gems_left), whether the move was
\* carried out or rejected; k Undos in a row walk back through the k latest
\* snapshots, which are the games before the k latest actions; the Undo
\* action is one such call; and Undos beyond the start of the history change
\* nothing.
C36_UndoRestores ==
    /\ [][PmActed => UndoTimes(PmGame', 1) = PmGame]_vars
    /\ [][PmUndone => PmGame' = UndoTimes(PmGame, 1)]_vars
    /\ [](pm_pc = "play" =>
            LET n == Len(pm_history)
            IN  /\ \A k \in 1..n :
                      LET u == UndoTimes(PmGame, k)
                          s == pm_history[n - k + 1]
                      IN  /\ u.history = SubSeq(pm_history, 1, n - k)
                          /\ u.grid = s.grid
                          /\ u.cursor_x = s.cursor_x /\ u.cursor_y = s.cursor_y
                          /\ u.prev_color = s.prev_color /\ u.extra = s.extra
                /\ UndoTimes(PmGame, n + 1) = UndoTimes(PmGame, n)
                /\ n = 0 => UndoTimes(PmGame, 1) = PmGame)

\* two actions on the ice: the first collected a gem, the second was
\* rejected and changed nothing
C36_Witness ==
    /\ pm_pc = "play" /\ pm_level = 2 /\ Len(pm_history) = 2
    /\ pm_history[1].extra.gems_left = pm_extra.gems_left + 1
    /\ pm_history[2] = PmSnapshot
    /\ UndoTimes(PmGame, 2).extra.gems_left = pm_extra.gems_left + 1

\* level 1 after a step that changed prev_color, and level 6 after a step
\* that moved the mirror block
C36_PrevColorChanged ==
    /\ pm_pc = "play" /\ pm_level = 0 /\ Len(pm_history) = 1
    /\ pm_history[1].prev_color # pm_prev_color

C36_MirrorMoved ==
    /\ pm_pc = "play" /\ pm_level = 5 /\ Len(pm_history) = 1
    /\ pm_history[1].extra.mirror_x # pm_extra.mirror_x

\* the colour of the gems of a level: green on the ice (level 3), yellow in
\* the gem collector (level 4)
GemColor(level_index) == IF level_index = 2 THEN C_GREEN ELSE C_YELLOW

\* the number of gem cells on a grid
GemCells(grid, color) ==
    Cardinality({c \in AllCells(grid_size(pm_level)[1], grid_size(pm_level)[2]) :
                    grid[c[2]][c[1]] = color})

\* a level 3 or level 4 handler ran: it pushed its snapshot
GemStepped ==
    /\ pm_level \in {2, 3} /\ pm_pc = "play"
    /\ Len(pm_history') = Len(pm_history) + 1

\* C37: in levels 3 and 4, from the end of setup on and also after Undo,
\* gems_left is the number of gem-coloured cells of the grid and is never
\* negative; next_level is called in exactly the steps that leave gems_left
\* at 0, and Undo never calls it.
C37_GemsLeftCounts ==
    /\ [](pm_level \in {2, 3} /\ pm_pc \in {"play", "next_level"} =>
            /\ pm_extra.gems_left = GemCells(pm_grid, GemColor(pm_level))
            /\ pm_extra.gems_left >= 0
            /\ \A i \in 1..Len(pm_history) :
                  pm_history[i].extra.gems_left
                      = GemCells(pm_history[i].grid, GemColor(pm_level)))
    /\ [][GemStepped => (pm_pc' = "next_level" <=> pm_extra'.gems_left = 0)]_vars
    /\ [][(pm_level \in {2, 3} /\ pm_pc = "play" /\ ~GemStepped) => (pm_pc' = "play")]_vars

\* the ice level won by collecting both gems in two slides
C37_Witness ==
    /\ pm_level = 2 /\ pm_pc = "next_level"
    /\ pm_extra.gems_total = 2 /\ pm_extra.gems_left = 0
    /\ Len(pm_history) = 2
    /\ pm_history[2].extra.gems_left = 1
    /\ GemCells(pm_grid, C_GREEN) = 0

\* the gem collector won by walking onto its last gem, and a rejected move
\* in it that leaves the count alone
C37_CollectorWon ==
    /\ pm_level = 3 /\ pm_pc = "next_level" /\ pm_extra.gems_left = 0
    /\ GemCells(pm_history[Len(pm_history)].grid, C_YELLOW) = 1

C37_RejectedMove ==
    /\ pm_level = 3 /\ pm_pc = "play" /\ Len(pm_history) = 1
    /\ pm_history[1] = PmSnapshot /\ pm_extra.gems_left = 1

\* the cursor cell
CdCursor == <<cd_cursor_x, cd_cursor_y>>

\* the cursor is on the grid of the level
CdCursorInGrid ==
    /\ 0 <= cd_cursor_x /\ cd_cursor_x < CdLevel(cd_level).grid_w
    /\ 0 <= cd_cursor_y /\ cd_cursor_y < CdLevel(cd_level).grid_h

\* step() with an arrow action while no colour is selected
CdFreeArrow == cd_pc = "play" /\ cd_selected_color = 0 /\ cd_action' \in DirActions

\* C38: while a colour is selected its drawn path is not empty and ends on
\* the cursor cell; an arrow action with no colour selected moves the
\* cursor by one cell in its direction, or not at all when that cell is off
\* the grid, and leaves the grid, every path and the selection as they were.
C38_SelectionEndsAtCursor ==
    /\ [](cd_pc # "idle" /\ cd_selected_color > 0 =>
            /\ cd_selected_color \in DOMAIN cd_drawn_paths
            /\ cd_drawn_paths[cd_selected_color] # <<>>
            /\ cd_drawn_paths[cd_selected_color][Len(cd_drawn_paths[cd_selected_color])]
                  = CdCursor)
    /\ [](cd_pc # "idle" => CdCursorInGrid)
    /\ [][CdFreeArrow =>
            LET to == <<cd_cursor_x + CdDir(cd_action')[1],
                        cd_cursor_y + CdDir(cd_action')[2]>>
                inside == /\ 0 <= to[1] /\ to[1] < CdLevel(cd_level).grid_w
                          /\ 0 <= to[2] /\ to[2] < CdLevel(cd_level).grid_h
            IN  /\ CdCursor' = IF inside THEN to ELSE CdCursor
                /\ cd_grid' = cd_grid
                /\ cd_drawn_paths' = cd_drawn_paths
                /\ cd_selected_color' = 0]_vars

\* a colour is selected, its path has been drawn out and taken back by one
\* cell with ACTION7
C38_Witness ==
    /\ cd_pc = "play" /\ cd_action = ACTION7 /\ cd_selected_color > 0
    /\ Len(cd_drawn_paths[cd_selected_color]) >= 2
    /\ cd_drawn_paths[cd_selected_color][Len(cd_drawn_paths[cd_selected_color])] = CdCursor
    /\ cd_grid[cd_cursor_y][cd_cursor_x] = cd_selected_color

\* an arrow action off the grid with no colour selected, after a path was drawn
C38_FreeArrowAtEdge ==
    /\ cd_pc = "play" /\ cd_action \in DirActions /\ cd_selected_color = 0
    /\ cd_cursor_x = 0
    /\ \E cid \in DOMAIN cd_drawn_paths : Len(cd_drawn_paths[cid]) >= 2

\* the colours that have pos as an endpoint, and the colours whose drawn
\* path holds pos
CdEndpointOf(pos) ==
    {cid \in DOMAIN CdLevel(cd_level).endpoints :
        pos \in {CdLevel(cd_level).endpoints[cid][1], CdLevel(cd_level).endpoints[cid][2]}}

CdOnPaths(pos) ==
    {cid \in DOMAIN cd_drawn_paths : pos \in PathCells(cd_drawn_paths[cid])}

\* C39: the grid agrees with the drawn paths: an endpoint cell carries the
\* label of its colour; a cell that is not an endpoint has label 0 exactly
\* when no drawn path holds it, and otherwise its label is a colour whose
\* drawn path holds it.
C39_GridAgreesWithPaths ==
    cd_pc # "idle" =>
        \A x \in 0..(CdLevel(cd_level).grid_w - 1), y \in 0..(CdLevel(cd_level).grid_h - 1) :
            IF CdEndpointOf(<<x, y>>) # {}
            THEN CdEndpointOf(<<x, y>>) = {cd_grid[y][x]}
            ELSE /\ cd_grid[y][x] = 0 <=> CdOnPaths(<<x, y>>) = {}
                 /\ cd_grid[y][x] # 0 => cd_grid[y][x] \in CdOnPaths(<<x, y>>)

\* a bridge held by one colour and labelled with it, while a colour with a
\* smaller id is selected and its path ends on a cell next to the bridge
C39_Witness ==
    /\ cd_pc = "play" /\ cd_level = CdBridgeLevel
    /\ \E b \in CdLevel(cd_level).bridges :
          /\ Cardinality(CdOnPaths(b)) = 1
          /\ cd_grid[b[2]][b[1]] \in CdOnPaths(b)
          /\ cd_selected_color > 0
          /\ cd_selected_color < cd_grid[b[2]][b[1]]
          /\ cd_action \in DirActions \cup {ACTION7}
          /\ cd_drawn_paths[cd_selected_color] # <<>>
          /\ \E d \in 1..4 :
                cd_drawn_paths[cd_selected_color][Len(cd_drawn_paths[cd_selected_color])]
                    = <<b[1] + DIRS[d][1], b[2] + DIRS[d][2]>>

\* a bridge cell held by two colours, labelled with the first
C39_SharedBridge ==
    /\ cd_pc = "play" /\ cd_level = CdBridgeLevel
    /\ \E b \in CdLevel(cd_level).bridges :
          Cardinality(CdOnPaths(b)) = 2 /\ cd_grid[b[2]][b[1]] \in CdOnPaths(b)

\* the two endpoints of a colour
CdEnds(cid) == CdLevel(cd_level).endpoints[cid]

\* the drawn path of the colour runs from one of its endpoints to the other
CdPathComplete(cid) ==
    LET path == cd_drawn_paths[cid]
    IN  /\ path # <<>>
        /\ path[1] \in {CdEnds(cid)[1], CdEnds(cid)[2]}
        /\ path[Len(path)] = OtherEndpoint(path[1], CdEnds(cid)[1], CdEnds(cid)[2])

\* C40: whenever the win check succeeds, the drawn path of every colour is
\* complete: it starts at one of the colour's endpoints and its last cell
\* is the colour's other endpoint.
C40_WinMeansComplete ==
    (cd_pc # "idle" /\ CdWon) => \A cid \in DOMAIN cd_drawn_paths : CdPathComplete(cid)

\* what the win check does give: every drawn path starts at an endpoint of
\* its colour, and a colour's other endpoint is the last cell of its path
\* or lies next to a cell of it; a colour whose path is empty has its two
\* endpoints next to each other
C40_WinJoinsEndpoints ==
    (cd_pc # "idle" /\ CdWon) =>
        \A cid \in DOMAIN cd_drawn_paths :
            LET path == cd_drawn_paths[cid]
            IN  IF path = <<>> THEN CdAdjacent(CdEnds(cid)[1], CdEnds(cid)[2])
                ELSE /\ path[1] \in {CdEnds(cid)[1], CdEnds(cid)[2]}
                     /\ LET other == OtherEndpoint(path[1], CdEnds(cid)[1], CdEnds(cid)[2])
                        IN  \/ path[Len(path)] = other
                            \/ \E c \in PathCells(path) : CdAdjacent(c, other)

\* the win comes before the last path is closed: in every won state some
\* colour's path is not complete
C40_WinLeavesAPathOpen ==
    (cd_pc # "idle" /\ CdWon) => \E cid \in DOMAIN cd_drawn_paths : ~CdPathComplete(cid)

\* a win with a colour that was never drawn
C40_WinWithEmptyPath ==
    cd_pc = "next_level" /\ \E cid \in DOMAIN cd_drawn_paths : cd_drawn_paths[cid] = <<>>

\* a win while the colour is still selected, one cell short of its other endpoint
C40_WinOneShort ==
    /\ cd_pc = "next_level" /\ cd_selected_color > 0
    /\ CdAdjacent(CdCursor, OtherEndpoint(cd_drawn_paths[cd_selected_color][1],
                                          CdEnds(cd_selected_color)[1],
                                          CdEnds(cd_selected_color)[2]))

====
